---- MODULE Spec2Model ----
(***************************************************************************)
(* Surebet bot: credential pool (core/api_manager.py), scanner run loop,   *)
(* cooldown cache and detection (core/scanner.py), feed client             *)
(* (core/odds_client.py), scheduler (core/scheduler.py) and calculator     *)
(* (core/calculator.py).                                                   *)
(*                                                                         *)
(* The specifications share the definitions of this module:                *)
(*   SpecPool        the pool driven by concurrent callers                 *)
(*   SpecCooldown    the cooldown cache driven by detections and the clock *)
(*   Spec, SpecFair  the scanner's run loop over the pool                  *)
(*   SpecClient      the feed client called by concurrent tasks            *)
(*   SpecScheduler   the time slots of the scheduler                       *)
(*   SpecPrioritize  the ordering of the sports                            *)
(*   SpecUpcoming    the matches about to start                            *)
(*   SpecCalculator  the calculator on one list of odds                    *)
(*   SpecDetection   the detection in one market of one event              *)
(*   SpecExtraction  the detection on quotes at 1.0 and below              *)
(*   SpecRunAnyPool  the run loop over a pool that may be empty            *)
(*   SpecScanClient  the scanner's requests through its feed clients       *)
(***************************************************************************)
EXTENDS Integers, Sequences, FiniteSets, TLC

(***************************************************************************)
(* Bounds of the model.                                                    *)
(***************************************************************************)
MaxKeys == 2        \* lines of the keys file before the program starts
MaxGen == 1         \* successful runs of the generation script
MaxFailovers == 4   \* cap on failover_count
MaxTime == 12       \* the clock stops here
NSports == 2        \* sports scanned per cycle
MaxFound == 1       \* opportunities one sport's scan returns at most
MaxEvents == 2           \* events in the list given to get_upcoming_matches()
MaxSports == 3           \* sports in the dict given to prioritize_sports()
MaxOdds == 3             \* odds in the list given to calculate_arbitrage()
MaxQuotes == 3           \* outcomes quoted by the bookmakers of one event
MaxSlotChanges == 3      \* cap on the calls of has_slot_changed() that report a change
MaxRetry == 12      \* cap on retry_count (past the cap of the backoff)
NTasks == 3              \* tasks calling one OddsClient concurrently

cooldown_minutes == 5   \* SurebetScanner(cooldown_minutes=5)
max_backoff_minutes == 10   \* self.max_backoff_minutes
LINEUP_ALERT_MINUTES == 60  \* default window of get_upcoming_matches
request_delay == 3      \* OddsClient(request_delay=3.0), in seconds

None == 0           \* Python's None for a credential (credentials are 1, 2, ...)

Callers == {1, 2}   \* tasks that call the pool concurrently

VARIABLES
    \* ---- APIManager -------------------------------------------------------
    file,            \* keys file: the sequence of its lines (one credential each)
    keys,            \* self.keys: sequence of APIKey records
    current_index,   \* self.current_index (0-based)
    auto_generate,   \* self.auto_generate
    failover_count,  \* self.failover_count
    last_error,      \* self.last_error (the status it was built from)
    lock,            \* self._lock: 0 when free, else the task that holds it
    lockq,           \* tasks waiting for self._lock, in arrival order
    sameFile,        \* the script's api_keys.txt is the keys file itself
    genCount,        \* successful generations so far
    \* ---- callers of the pool ----------------------------------------------
    cpc,             \* per caller: "idle", "observed", "waitlock", "generating"
    cobs,            \* per caller: credential whose failure it observed
    gstart,          \* active credential when the failover now generating began
    cmarked,         \* per caller: credential its last failover marked invalid
    streak,          \* consecutive failovers since the last load of an all-valid pool
    handled,         \* arguments of the handle_api_error() call this step made, else NoCall
    \* ---- SurebetScanner: cooldown -----------------------------------------
    cooldown_cache,  \* self.cooldown_cache: identifier -> expiry time
    now,             \* datetime.now(), in minutes
    lastEmit,        \* per identifier: when its Opportunity was last emitted, -1 = never
    \* ---- SurebetScanner: run loop -----------------------------------------
    pc,              \* where run() stands (the await it is suspended at)
    running,         \* self.running
    force_stop,      \* self.force_stop
    waiting_for_key, \* self.waiting_for_key
    retry_count,     \* self.retry_count
    client_key,      \* self.client.api_key, NoClient while self.client is None
    sport_i,         \* sports of prioritized_sports already iterated in this cycle
    wait_left,       \* iterations left in the 30-second wait loop
    found,           \* len(all_surebets) still to notify and save
    stop_requested,  \* request_stop() was called since run() began
    fo_cycle,        \* a failover succeeded during the current cycle
    current_slot_name, \* scheduler._current_slot_name (None before the first call)
    \* ---- OddsClient --------------------------------------------------------
    cl_lock,         \* self._lock: 0 when free, else the task that holds it
    cl_lockq,        \* tasks waiting for self._lock, in arrival order
    cl_pc,           \* per task: "idle", "waitlock", "sleeping", "inflight"
    last_set,        \* self._last_request_time > 0
    since_last,      \* time.monotonic() - self._last_request_time, counted up to request_delay
    sleep_left,      \* what is left of the lock holder's asyncio.sleep(wait_time)
    since_done,      \* seconds since the last request completed (up to request_delay), -1 = none yet
    \* ---- SmartScheduler ----------------------------------------------------
    weekday,         \* self.now.weekday(), 0 = Monday
    hour,            \* self.now.hour
    slot_change_count, \* self._slot_change_count
    notified_matches,  \* self._notified_matches
    changes_reported,  \* calls of has_slot_changed() that returned changed = True
    sports,          \* the dict of sports the scanner is configured with
    events,          \* the list of events given to get_upcoming_matches()
    \* ---- calculator ---------------------------------------------------------
    odds,            \* the odds given to calculate_arbitrage, in tenths
    total_stake,     \* the total stake given to calculate_arbitrage
    \* ---- detection ----------------------------------------------------------
    event,           \* the quotes of event["bookmakers"], in the order they are read
    market,          \* the market_key _find_arbitrage is called with
    ev               \* what the last step did

poolVars == <<file, keys, current_index, auto_generate, failover_count,
              last_error, lock, lockq, sameFile, genCount>>
callerVars == <<cpc, cobs, gstart, cmarked, streak, handled>>
cdVars == <<cooldown_cache, now, lastEmit>>
schedVars == <<current_slot_name>>
scanVars == <<pc, running, force_stop, waiting_for_key, retry_count, client_key,
              sport_i, wait_left, found, stop_requested, fo_cycle, schedVars>>
clientVars == <<cl_lock, cl_lockq, cl_pc, last_set, since_last, sleep_left, since_done>>
scanLoopVars == <<pc, running, force_stop, waiting_for_key, retry_count, client_key,
                  sport_i, wait_left, found, stop_requested, fo_cycle>>
schedulerVars == <<weekday, hour, slot_change_count, notified_matches, changes_reported,
                   sports, events>>
calcVars == <<odds, total_stake>>
detectVars == <<event, market>>
vars == <<poolVars, callerVars, cdVars, scanVars, clientVars, schedulerVars, calcVars,
          detectVars, ev>>

\* What the operations of one component leave alone.
otherThanPool == <<cdVars, scanVars, clientVars, schedulerVars, calcVars,
    detectVars>>
otherThanCooldown == <<poolVars, callerVars, scanVars, clientVars, schedulerVars, calcVars,
    detectVars>>
otherThanScanner == <<callerVars, cdVars, clientVars, schedulerVars, calcVars,
    detectVars>>
otherThanClient == <<poolVars, callerVars, cdVars, scanVars, schedulerVars, calcVars,
    detectVars>>
otherThanScheduler == <<poolVars, callerVars, cdVars, scanLoopVars, clientVars, calcVars,
    detectVars>>
otherThanCalculator == <<poolVars, callerVars, cdVars, scanVars, clientVars, schedulerVars,
    detectVars>>
otherThanDetection == <<poolVars, callerVars, now, lastEmit, scanVars, clientVars,
    schedulerVars, calcVars>>

(***************************************************************************)
(* APIManager: pure parts.                                                 *)
(***************************************************************************)
APIKey(id) == [id |-> id, is_valid |-> TRUE, error_count |-> 0]

\* load_keys: every line of the file becomes a fresh APIKey (valid, no errors);
\* current_index is not touched.
load_keys(f) == [i \in 1..Len(f) |-> APIKey(f[i])]

\* Python list index (0-based, negative from the end) as a Sequences index.
PyIndex(ks, idx) == IF idx < 0 THEN Len(ks) + idx + 1 ELSE idx + 1

current_key(ks, idx) == IF Len(ks) = 0 THEN None ELSE ks[PyIndex(ks, idx)].id

valid_keys_count(ks) == Cardinality({i \in 1..Len(ks) : ks[i].is_valid})

\* Sample response bodies and the substring tests made on them.
Bodies == {"", "server error", "Quota exceeded", "OUT_OF_USAGE_CREDITS", "usage limit reached"}
HasQuotaLower(body) == body = "Quota exceeded"
HasOutOfCredits(body) == body = "OUT_OF_USAGE_CREDITS"
HasUsageLower(body) == body \in {"OUT_OF_USAGE_CREDITS", "usage limit reached"}
Statuses == {0, 401, 402, 429, 500}

\* handle_api_error: self.last_error = f"HTTP {status_code}: {response_text[:100]}",
\* kept as the status the text starts with.
LastError(status, body) == status

\* self.last_error = None
NoError == -1

\* The arguments of a call of handle_api_error(), and no call.
Call(status, body) == [status |-> status, body |-> body]
NoCall == Call(-1, "")

\* A pool for which every reported error is a quota error.
PoolQuotaError_AnyError(status, body) == TRUE

\* A pool that goes by the status alone.
PoolQuotaError_StatusOnly(status, body) == status \in {401, 402, 429}

\* handle_api_error's classification.
PoolQuotaError(status, body) ==
    \/ status \in {401, 402, 429}
    \/ HasQuotaLower(body)
    \/ HasOutOfCredits(body)
    \/ HasUsageLower(body)

\* A failover that counts the error but leaves the key valid.
MarkInvalid_CountsOnly(ks, idx) ==
    IF Len(ks) = 0 THEN ks
    ELSE [ks EXCEPT ![PyIndex(ks, idx)] = [@ EXCEPT !.error_count = @ + 1]]

\* failover: mark the active key invalid and count the error.
MarkInvalid(ks, idx) ==
    IF Len(ks) = 0 THEN ks
    ELSE [ks EXCEPT ![PyIndex(ks, idx)] =
             [@ EXCEPT !.is_valid = FALSE, !.error_count = @ + 1]]

\* failover: the circular scan for the next valid key.
RECURSIVE SearchFrom(_, _, _, _)
SearchFrom(ks, cur, orig, remaining) ==
    IF remaining = 0 THEN [found |-> FALSE, idx |-> cur]
    ELSE LET nxt == (cur + 1) % Len(ks) IN
         IF ks[nxt + 1].is_valid THEN [found |-> TRUE, idx |-> nxt]
         ELSE IF nxt = orig THEN [found |-> FALSE, idx |-> nxt]
         ELSE SearchFrom(ks, nxt, orig, remaining - 1)

\* A search that reports a valid key without moving to it.
NextValid_StaysPut(ks, idx) ==
    [found |-> \E i \in 1..Len(ks) : ks[i].is_valid, idx |-> idx]

NextValid(ks, idx) == SearchFrom(ks, idx, idx, Len(ks))

\* generate_new_key, on success: the script appends its line to its own
\* api_keys.txt, and the lines that file gained are appended to the keys file.
MaxId(f) == IF Len(f) = 0 THEN 0
            ELSE CHOOSE m \in {f[i] : i \in 1..Len(f)} : \A i \in 1..Len(f) : f[i] <= m
\* A generation that writes the new line at the head of the keys file.
GenerateAppend_AtHead(f, same) == <<MaxId(f) + 1>> \o f

GenerateAppend(f, same) ==
    LET new == MaxId(f) + 1
        afterScript == IF same THEN Append(f, new) ELSE f
    IN Append(afterScript, new)

(***************************************************************************)
(* History kept for the properties: what a step did, and the run of        *)
(* consecutive failovers since the pool was last loaded.                   *)
(***************************************************************************)
NoEv == [kind |-> "none", c |-> 0, res |-> FALSE, start |-> None]
RetEv(c, res, start) == [kind |-> "failover_ret", c |-> c, res |-> res, start |-> start]
OtherEv(kind, c) == [kind |-> kind, c |-> c, res |-> FALSE, start |-> None]

Ids(ks) == {ks[i].id : i \in 1..Len(ks)}
NoStreak == [on |-> FALSE, i |-> 0, k |-> 0, j |-> 0, res |-> FALSE, seen |-> {}, twice |-> FALSE]
StreakAtLoad(ks, idx) ==
    IF Len(ks) >= 1 /\ Cardinality(Ids(ks)) = Len(ks) /\ idx < Len(ks)
    THEN [on |-> TRUE, i |-> idx, k |-> Len(ks), j |-> 0, res |-> FALSE,
          seen |-> {current_key(ks, idx)}, twice |-> FALSE]
    ELSE NoStreak
StreakAfter(st, res, ks, idx) ==
    IF ~st.on \/ st.j >= st.k THEN NoStreak
    ELSE [st EXCEPT !.j = @ + 1, !.res = res,
                    !.seen = IF res THEN @ \cup {current_key(ks, idx)} ELSE @,
                    !.twice = @ \/ (res /\ current_key(ks, idx) \in st.seen)]

(***************************************************************************)
(* APIManager: operations, as steps of the task c that calls them.         *)
(***************************************************************************)
\* A failover() that takes no lock.
LockFree_Unguarded == TRUE

\* asyncio.Lock: acquire() returns at once when the lock is free and nobody waits.
LockFree == lock = 0 /\ lockq = <<>>

\* load_keys()
Load ==
    /\ keys' = load_keys(file)
    /\ cobs' = [c \in Callers |-> None]
    /\ cmarked' = [c \in Callers |-> None]
    /\ streak' = IF lock = 0 /\ ~auto_generate
                 THEN StreakAtLoad(keys', current_index) ELSE NoStreak
    /\ ev' = OtherEv("load", 0)
    /\ handled' = NoCall
    /\ UNCHANGED <<file, current_index, auto_generate, failover_count, last_error,
                   lock, lockq, sameFile, genCount, cpc, gstart>>
    /\ UNCHANGED otherThanPool

\* A task's request fails while the active credential is the one it carries.
Observe(c) ==
    /\ cpc[c] = "idle"
    /\ current_key(keys, current_index) # None
    /\ cpc' = [cpc EXCEPT ![c] = "observed"]
    /\ cobs' = [cobs EXCEPT ![c] = current_key(keys, current_index)]
    /\ cmarked' = [cmarked EXCEPT ![c] = None]
    /\ ev' = OtherEv("observe", c)
    /\ handled' = NoCall
    /\ UNCHANGED <<poolVars, gstart, streak>>
    /\ UNCHANGED otherThanPool

\* failover(), from "async with self._lock" (lock in hand) to the return or to
\* the await of generate_new_key().
FailoverBody(c) ==
    LET marked == MarkInvalid(keys, current_index)
        r == NextValid(marked, current_index)
        start == current_key(keys, current_index)
    IN /\ failover_count < MaxFailovers
       /\ failover_count' = failover_count + 1
       /\ keys' = marked
       /\ current_index' = r.idx
       /\ cmarked' = [cmarked EXCEPT ![c] = start]
       /\ IF r.found
          THEN /\ cpc' = [cpc EXCEPT ![c] = "idle"]
               /\ lock' = 0
               /\ gstart' = None
               /\ ev' = RetEv(c, TRUE, start)
               /\ streak' = StreakAfter(streak, TRUE, keys', current_index')
          ELSE IF auto_generate
          THEN /\ cpc' = [cpc EXCEPT ![c] = "generating"]
               /\ gstart' = start
               /\ lock' = c
               /\ ev' = OtherEv("generate", c)
               /\ streak' = NoStreak
          ELSE /\ cpc' = [cpc EXCEPT ![c] = "idle"]
               /\ lock' = 0
               /\ gstart' = None
               /\ ev' = RetEv(c, FALSE, start)
               /\ streak' = StreakAfter(streak, FALSE, keys', current_index')
       /\ UNCHANGED <<file, auto_generate, sameFile, genCount>>

\* failover() is entered: the body runs at once, or the task queues on the lock.
FailoverEnter(c) ==
    IF LockFree
    THEN FailoverBody(c) /\ UNCHANGED lockq
    ELSE /\ cpc' = [cpc EXCEPT ![c] = "waitlock"]
         /\ lockq' = Append(lockq, c)
         /\ ev' = OtherEv("wait", c)
         /\ UNCHANGED <<file, keys, current_index, auto_generate, failover_count,
                        lock, sameFile, genCount, gstart, cmarked, streak>>

\* failover() called directly.
Failover(c) ==
    /\ cpc[c] \in {"idle", "observed"}
    /\ FailoverEnter(c)
    /\ handled' = NoCall
    /\ UNCHANGED <<last_error, cobs>>
    /\ UNCHANGED otherThanPool

\* handle_api_error(status_code, response_text)
HandleApiError(c, status, body) ==
    /\ cpc[c] = "observed"
    /\ last_error' = LastError(status, body)
    /\ handled' = Call(status, body)
    /\ IF PoolQuotaError(status, body)
       THEN FailoverEnter(c)
       ELSE /\ cpc' = [cpc EXCEPT ![c] = "idle"]
            /\ ev' = OtherEv("not_quota", c)
            /\ UNCHANGED <<file, keys, current_index, auto_generate, failover_count,
                           lock, lockq, sameFile, genCount, gstart, cmarked, streak>>
    /\ UNCHANGED cobs
    /\ UNCHANGED otherThanPool

\* The lock is released and its first waiter resumes inside failover().
WaiterProceeds(c) ==
    /\ cpc[c] = "waitlock"
    /\ lock = 0
    /\ lockq # <<>>
    /\ Head(lockq) = c
    /\ lockq' = Tail(lockq)
    /\ FailoverBody(c)
    /\ handled' = NoCall
    /\ UNCHANGED <<last_error, cobs>>
    /\ UNCHANGED otherThanPool

\* generate_new_key() returns inside failover(): reload and activate the last
\* key on success, give up otherwise.
GenerateDone(c, ok) ==
    /\ cpc[c] = "generating"
    /\ lock = c
    /\ IF ok
       THEN /\ genCount < MaxGen
            /\ file' = GenerateAppend(file, sameFile)
            /\ keys' = load_keys(file')
            /\ current_index' = Len(keys') - 1
            /\ genCount' = genCount + 1
            /\ cobs' = [d \in Callers |-> None]
            /\ cmarked' = [d \in Callers |-> None]
       ELSE UNCHANGED <<file, keys, current_index, genCount, cobs, cmarked>>
    /\ lock' = 0
    /\ cpc' = [cpc EXCEPT ![c] = "idle"]
    /\ gstart' = None
    /\ ev' = RetEv(c, ok, gstart)
    /\ handled' = NoCall
    /\ streak' = NoStreak
    /\ UNCHANGED <<auto_generate, failover_count, last_error, lockq, sameFile>>
    /\ UNCHANGED otherThanPool

InitPool ==
    /\ \E k \in 0..MaxKeys : file = [i \in 1..k |-> i]
    /\ keys = <<>>
    /\ current_index = 0
    /\ auto_generate \in BOOLEAN
    /\ sameFile \in (IF auto_generate THEN BOOLEAN ELSE {FALSE})
    /\ failover_count = 0
    /\ last_error = NoError
    /\ lock = 0
    /\ lockq = <<>>
    /\ genCount = 0
    /\ cpc = [c \in Callers |-> "idle"]
    /\ cobs = [c \in Callers |-> None]
    /\ gstart = None
    /\ cmarked = [c \in Callers |-> None]
    /\ streak = NoStreak
    /\ handled = NoCall
    /\ ev = NoEv

NextPool ==
    \/ Load
    \/ \E c \in Callers : Observe(c)
    \/ \E c \in Callers : Failover(c)
    \/ \E c \in Callers, status \in Statuses, body \in Bodies : HandleApiError(c, status, body)
    \/ \E c \in Callers : WaiterProceeds(c)
    \/ \E c \in Callers, ok \in BOOLEAN : GenerateDone(c, ok)

\* The parts of the state a specification does not use stay as constructed.
IdlePool ==
    /\ file = <<>> /\ keys = <<>> /\ current_index = 0 /\ auto_generate = FALSE
    /\ sameFile = FALSE /\ failover_count = 0 /\ last_error = NoError /\ lock = 0
    /\ lockq = <<>> /\ genCount = 0
IdleCallers ==
    /\ cpc = [c \in Callers |-> "idle"] /\ cobs = [c \in Callers |-> None]
    /\ gstart = None /\ cmarked = [c \in Callers |-> None] /\ streak = NoStreak
    /\ handled = NoCall

(***************************************************************************)
(* SurebetScanner: the cooldown cache.                                     *)
(***************************************************************************)
Matches == {"Lyon vs Lille"}
Lines == {"2.5", "3.5"}
LineMarkets == {"totals", "spreads"}

\* f"{match}_{market_key}" and f"{match}_{market_key}_{line}"
Identifier(match, market_key, line) ==
    IF market_key = "h2h" THEN <<match, market_key>> ELSE <<match, market_key, line>>

Identifiers ==
    {Identifier(m, "h2h", "") : m \in Matches}
        \cup {Identifier(m, mk, l) : m \in Matches, mk \in {"totals"}, l \in Lines}

Without(cache, id) == [x \in (DOMAIN cache) \ {id} |-> cache[x]]
With(cache, id, t) == [x \in (DOMAIN cache) \cup {id} |-> IF x = id THEN t ELSE cache[x]]

\* A check that restarts the window of an entry it finds running.
IsInCooldown_Extending(cache, id, t) ==
    IF id \notin DOMAIN cache THEN [hit |-> FALSE, cache |-> cache]
    ELSE IF t > cache[id] THEN [hit |-> FALSE, cache |-> Without(cache, id)]
    ELSE [hit |-> TRUE, cache |-> With(cache, id, t + cooldown_minutes)]

\* _is_in_cooldown: the answer, and the cache after it (an expired entry is dropped).
IsInCooldown(cache, id, t) ==
    IF id \notin DOMAIN cache THEN [hit |-> FALSE, cache |-> cache]
    ELSE IF t > cache[id] THEN [hit |-> FALSE, cache |-> Without(cache, id)]
    ELSE [hit |-> TRUE, cache |-> cache]

\* _add_cooldown
AddCooldown(cache, id, t) == With(cache, id, t + cooldown_minutes)

\* A purge that drops the entries still running instead of the expired ones.
CleanupCache_Inverted(cache, t) == [x \in {y \in DOMAIN cache : t > cache[y]} |-> cache[x]]

\* _cleanup_cooldown_cache
CleanupCache(cache, t) == [x \in {y \in DOMAIN cache : ~(t > cache[y])} |-> cache[x]]

\* What one detection did: the identifier, whether its Opportunity was emitted,
\* when it was last emitted before, and whether the cache still held it.
Det(id, emitted, cache) ==
    [id |-> id, emitted |-> emitted, prev |-> lastEmit[id], cached |-> id \in DOMAIN cache]

\* A loop that emits its first line and registers every line it was given.
FindInLines_RegisterAll(cache, t, match, market_key, lines, dets) ==
    IF lines = <<>> THEN [cache |-> cache, emitted |-> {}, dets |-> dets]
    ELSE LET ids == {Identifier(match, market_key, lines[i]) : i \in DOMAIN lines}
             id == Identifier(match, market_key, Head(lines))
         IN [cache |-> [x \in DOMAIN cache \cup ids |->
                           IF x \in ids THEN t + cooldown_minutes ELSE cache[x]],
             emitted |-> {id},
             dets |-> dets \cup {Det(id, TRUE, cache)}]

\* The loop over the lines of _find_totals_arbitrage / _find_spreads_arbitrage,
\* for the lines (in dict order) whose best odds make an arbitrage: a line in
\* cooldown is skipped, the first other line is registered and returned.
RECURSIVE FindInLines(_, _, _, _, _, _)
FindInLines(cache, t, match, market_key, lines, dets) ==
    IF lines = <<>> THEN [cache |-> cache, emitted |-> {}, dets |-> dets]
    ELSE LET id == Identifier(match, market_key, Head(lines))
             r == IsInCooldown(cache, id, t)
         IN IF r.hit
            THEN FindInLines(r.cache, t, match, market_key, Tail(lines),
                             dets \cup {Det(id, FALSE, cache)})
            ELSE [cache |-> AddCooldown(r.cache, id, t),
                  emitted |-> {id},
                  dets |-> dets \cup {Det(id, TRUE, cache)}]

\* What a call of a find function did; lines: the lines that presented an
\* arbitrage to it, in the order of the loop (none for h2h).
FindLinesEv(dets, lines) ==
    [kind |-> "find", c |-> 0, res |-> FALSE, start |-> None, dets |-> dets, lines |-> lines]
FindEv(dets) == FindLinesEv(dets, <<>>)

\* _find_totals_arbitrage on a market whose lines `lines` present an arbitrage.
FindTotalsArbitrage(match, lines) ==
    LET r == FindInLines(cooldown_cache, now, match, "totals", lines, {}) IN
    /\ cooldown_cache' = r.cache
    /\ lastEmit' = [id \in Identifiers |-> IF id \in r.emitted THEN now ELSE lastEmit[id]]
    /\ ev' = FindLinesEv(r.dets, lines)
    /\ UNCHANGED now
    /\ UNCHANGED otherThanCooldown

\* _find_h2h_arbitrage on a market whose best odds make an arbitrage.
FindH2HArbitrage(match) ==
    LET id == Identifier(match, "h2h", "")
        r == IsInCooldown(cooldown_cache, id, now)
    IN /\ cooldown_cache' = IF r.hit THEN r.cache ELSE AddCooldown(r.cache, id, now)
       /\ lastEmit' = [lastEmit EXCEPT ![id] = IF r.hit THEN @ ELSE now]
       /\ ev' = FindEv({Det(id, ~r.hit, cooldown_cache)})
       /\ UNCHANGED now
    /\ UNCHANGED otherThanCooldown

\* scan_once, first lines: the purge that opens every cycle.
CleanupCooldownCache ==
    /\ cooldown_cache' = CleanupCache(cooldown_cache, now)
    /\ ev' = OtherEv("cleanup", 0)
    /\ UNCHANGED <<now, lastEmit>>
    /\ UNCHANGED otherThanCooldown

\* Time passes.
Tick ==
    /\ now < MaxTime
    /\ now' = now + 1
    /\ ev' = OtherEv("tick", 0)
    /\ UNCHANGED <<cooldown_cache, lastEmit>>
    /\ UNCHANGED otherThanCooldown

LineOrders == {<<>>} \cup {<<l>> : l \in Lines}
                 \cup {<<p[1], p[2]>> : p \in {q \in Lines \X Lines : q[1] # q[2]}}

InitCooldown ==
    /\ cooldown_cache = <<>>
    /\ now = 0
    /\ lastEmit = [id \in Identifiers |-> -1]

NextCooldown ==
    \/ Tick
    \/ CleanupCooldownCache
    \/ \E m \in Matches : FindH2HArbitrage(m)
    \/ \E m \in Matches, ls \in LineOrders : FindTotalsArbitrage(m, ls)

(***************************************************************************)
(* SurebetScanner: the run loop.  One action runs from the completion of   *)
(* one await to the next await; request_stop() may run at any await.       *)
(* The opportunities of a cycle are counted, not identified: the cooldown  *)
(* cache stays empty here, so the purge that opens scan_once changes       *)
(* nothing; its interleavings with detections are those of SpecCooldown.   *)
(***************************************************************************)
NoClient == -1

\* A call of the Notifier: which notice, and the old and new values it names.
Notice(what, old, new) == [what |-> what, old |-> old, new |-> new]

\* What a step of run() did: its kind, the credential it concerns, the failed
\* response it handled (status -1: none) and the Notifier calls it made.
ErrEv(kind, key, status, err, notices) ==
    [kind |-> kind, c |-> 0, res |-> FALSE, start |-> None, key |-> key,
     status |-> status, err |-> err, notices |-> notices]
NoticeEv(kind, key, notices) == ErrEv(kind, key, -1, "", notices)
ScanEv(kind, key) == NoticeEv(kind, key, {})

Min(a, b) == IF a < b THEN a ELSE b

\* A client that is built once and kept.
GetClient_KeepsClient(client, key) == IF client = NoClient THEN key ELSE client

\* _get_client: the client is replaced when there is none or its key is not
\* the active key.
GetClient(client, key) == IF client = NoClient \/ client # key THEN key ELSE client

\* A scanner that takes every failed response for a quota error.
ScannerQuotaError_AnyFailure(status, err) == TRUE

\* _scan_sport's classification of a failed response.
ScannerQuotaError(status, err) ==
    \/ status \in {401, 402, 429}
    \/ HasOutOfCredits(err)
    \/ HasQuotaLower(err)

\* A scan that only the stop flag cuts short.
ScanPaused_StopOnly(waiting, stop) == stop

\* scan_once, the test that opens each iteration over the sports.
ScanPaused(waiting, stop) == waiting \/ stop

\* run(), the while condition.
LoopContinues(run, stop) == run /\ ~stop

\* A run loop that gives up when the regeneration failed.
AfterFailedRetry_GivesUp(stop) == "exit"

\* run(), after _wait_and_retry_key_generation() returned False.
AfterFailedRetry(stop) == IF ~stop THEN "loop" ELSE "exit"

\* A backoff that grows without its cap.
WaitIterations_Uncapped(retry) == (retry * 60) \div 30

\* _wait_and_retry_key_generation: the number of 30-second waits.
WaitIterations(retry) == (Min(retry, max_backoff_minutes) * 60) \div 30

\* Slots get_current_slot() may resolve to.
Slots == {1, 2}

\* A scheduler that records the slot of its first call only.
has_slot_changed_KeepsFirst(cur, new_name) ==
    IF cur = None
    THEN [changed |-> TRUE, old |-> None, new |-> new_name, name |-> new_name]
    ELSE [changed |-> new_name # cur, old |-> cur, new |-> new_name, name |-> cur]

\* has_slot_changed(), new_name being what get_current_slot() resolves to now:
\* the answer (changed, old, new) and the slot name recorded afterwards.
has_slot_changed(cur, new_name) ==
    IF cur = None
    THEN [changed |-> TRUE, old |-> None, new |-> new_name, name |-> new_name]
    ELSE IF new_name # cur
    THEN [changed |-> TRUE, old |-> cur, new |-> new_name, name |-> new_name]
    ELSE [changed |-> FALSE, old |-> cur, new |-> cur, name |-> cur]

\* A run loop that reports no slot change.
SlotNotices_Silent(changed, old, new) == {}

\* run(): the message sent when has_slot_changed() reports a change.
SlotNotices(changed, old, new) ==
    IF changed /\ old # None THEN {Notice("slot_change", old, new)} ELSE {}

\* run(), up to the first message and the first has_slot_changed().
RunStart ==
    /\ pc = "init"
    /\ running' = TRUE
    /\ waiting_for_key' = FALSE
    /\ force_stop' = FALSE
    /\ retry_count' = 0
    /\ pc' = "loop"
    /\ ev' = NoticeEv("run_start", None, {Notice("start", None, None)})
    /\ \E new_name \in Slots :
           current_slot_name' = has_slot_changed(current_slot_name, new_name).name
    /\ UNCHANGED <<client_key, sport_i, wait_left, found, stop_requested, fo_cycle>>
    /\ UNCHANGED poolVars
    /\ UNCHANGED otherThanScanner

\* request_stop(), called by whoever holds the scanner while run() is suspended.
RequestStop ==
    /\ pc \notin {"init", "stopped"}
    /\ ~force_stop
    /\ force_stop' = TRUE
    /\ running' = FALSE
    /\ stop_requested' = TRUE
    /\ ev' = ScanEv("request_stop", None)
    /\ UNCHANGED <<pc, waiting_for_key, retry_count, client_key, sport_i, wait_left,
                   found, fo_cycle>>
    /\ UNCHANGED poolVars
    /\ UNCHANGED schedVars
    /\ UNCHANGED otherThanScanner

\* run(): the while test, then the await of telegram.handle_commands().
LoopTop ==
    /\ pc = "loop"
    /\ pc' = IF LoopContinues(running, force_stop) THEN "cmds" ELSE "exit"
    /\ ev' = ScanEv("loop", None)
    /\ UNCHANGED <<running, force_stop, waiting_for_key, retry_count, client_key,
                   sport_i, wait_left, found, stop_requested, fo_cycle>>
    /\ UNCHANGED poolVars
    /\ UNCHANGED schedVars
    /\ UNCHANGED otherThanScanner

\* run(): after handle_commands() — stop test, slot change, then either the
\* start of _wait_and_retry_key_generation() or the start of scan_once().
AfterCommands(new_name) ==
    /\ pc = "cmds"
    /\ IF force_stop
       THEN /\ pc' = "exit"
            /\ ev' = ScanEv("cmds_stop", None)
            /\ UNCHANGED <<retry_count, wait_left, sport_i, found, fo_cycle>>
            /\ UNCHANGED current_slot_name
       ELSE LET h == has_slot_changed(current_slot_name, new_name)
                slot_notices == SlotNotices(h.changed, h.old, h.new)
            IN /\ current_slot_name' = h.name
               /\ IF waiting_for_key
                  THEN /\ retry_count < MaxRetry
                       /\ retry_count' = retry_count + 1
                       /\ wait_left' = WaitIterations(retry_count')
                       /\ pc' = "wait"
                       /\ ev' = NoticeEv("backoff_start", None,
                                         slot_notices \cup {Notice("retry_wait", None, None)})
                       /\ UNCHANGED <<sport_i, found, fo_cycle>>
                  ELSE /\ pc' = "sports"
                       /\ sport_i' = 0
                       /\ found' = 0
                       /\ fo_cycle' = FALSE
                       /\ ev' = NoticeEv("scan_start", None, slot_notices)
                       /\ UNCHANGED <<retry_count, wait_left>>
    /\ UNCHANGED <<running, force_stop, waiting_for_key, client_key, stop_requested>>
    /\ UNCHANGED poolVars
    /\ UNCHANGED otherThanScanner

\* _wait_and_retry_key_generation: one turn of the wait loop (stop test, then
\* sleep 30 s), or, the loop over, the message and the start of
\* generate_new_key().
WaitLoop ==
    /\ pc = "wait"
    /\ IF wait_left > 0
       THEN IF force_stop
            THEN /\ pc' = AfterFailedRetry(force_stop)
                 /\ ev' = ScanEv("wait_stopped", None)
                 /\ UNCHANGED wait_left
            ELSE /\ wait_left' = wait_left - 1
                 /\ pc' = "wait"
                 /\ ev' = ScanEv("sleep30", None)
       ELSE /\ pc' = "regen"
            /\ ev' = NoticeEv("regen_start", None, {Notice("retry_attempt", None, None)})
            /\ UNCHANGED wait_left
    /\ UNCHANGED <<running, force_stop, waiting_for_key, retry_count, client_key,
                   sport_i, found, stop_requested, fo_cycle>>
    /\ UNCHANGED poolVars
    /\ UNCHANGED schedVars
    /\ UNCHANGED otherThanScanner

\* _wait_and_retry_key_generation: generate_new_key() returned.
RegenDone(ok) ==
    /\ pc = "regen"
    /\ IF ok
       THEN /\ genCount < MaxGen
            /\ file' = GenerateAppend(file, sameFile)
            /\ keys' = load_keys(file')
            /\ genCount' = genCount + 1
            /\ waiting_for_key' = FALSE
            /\ retry_count' = 0
            /\ pc' = "regen_ok"
            /\ ev' = NoticeEv("regen_ok", current_key(keys', current_index),
                             {Notice("new_key", None, current_key(keys', current_index))})
       ELSE /\ pc' = AfterFailedRetry(force_stop)
            /\ ev' = ScanEv("regen_failed", None)
            /\ UNCHANGED <<file, keys, genCount, waiting_for_key, retry_count>>
    /\ UNCHANGED <<running, force_stop, client_key, sport_i, wait_left, found,
                   stop_requested, fo_cycle>>
    /\ UNCHANGED <<current_index, auto_generate, failover_count, last_error, lock,
                   lockq, sameFile>>
    /\ UNCHANGED schedVars
    /\ UNCHANGED otherThanScanner

\* A run() that starts the next iteration after a successful retry.
RegenReturn_NextIteration ==
    /\ pc = "regen_ok"
    /\ pc' = IF force_stop THEN "exit" ELSE "loop"
    /\ ev' = ScanEv("regen_return", None)
    /\ UNCHANGED <<running, force_stop, waiting_for_key, retry_count, client_key,
                   sport_i, wait_left, found, stop_requested, fo_cycle>>
    /\ UNCHANGED poolVars
    /\ UNCHANGED schedVars
    /\ UNCHANGED otherThanScanner

\* run(): _wait_and_retry_key_generation() returned True (its last message is
\* sent): stop test, else scan_once() starts.
RegenReturn ==
    /\ pc = "regen_ok"
    /\ IF force_stop
       THEN /\ pc' = "exit"
            /\ UNCHANGED <<sport_i, found, fo_cycle>>
       ELSE /\ pc' = "sports"
            /\ sport_i' = 0
            /\ found' = 0
            /\ fo_cycle' = FALSE
    /\ ev' = ScanEv("regen_return", None)
    /\ UNCHANGED <<running, force_stop, waiting_for_key, retry_count, client_key,
                   wait_left, stop_requested>>
    /\ UNCHANGED poolVars
    /\ UNCHANGED schedVars
    /\ UNCHANGED otherThanScanner

\* scan_once: the head of the loop over the sports, then _scan_sport up to
\* the call of client.get_odds() (which first waits for its rate limit).
SportStep ==
    /\ pc = "sports"
    /\ IF sport_i = NSports \/ ScanPaused(waiting_for_key, force_stop)
       THEN /\ pc' = "notify"
            /\ ev' = ScanEv("scan_end", None)
            /\ UNCHANGED client_key
       ELSE /\ client_key' = GetClient(client_key, current_key(keys, current_index))
            /\ pc' = "ratelimit"
            /\ ev' = ScanEv("get_odds", client_key')
    /\ UNCHANGED <<running, force_stop, waiting_for_key, retry_count, sport_i,
                   wait_left, found, stop_requested, fo_cycle>>
    /\ UNCHANGED poolVars
    /\ UNCHANGED schedVars
    /\ UNCHANGED otherThanScanner

\* OddsClient._request: the rate-limit wait is over, the GET leaves with
\* params["apiKey"] = self.api_key.
IssueRequest ==
    /\ pc = "ratelimit"
    /\ pc' = "request"
    /\ ev' = ScanEv("request", client_key)
    /\ UNCHANGED <<running, force_stop, waiting_for_key, retry_count, client_key,
                   sport_i, wait_left, found, stop_requested, fo_cycle>>
    /\ UNCHANGED poolVars
    /\ UNCHANGED schedVars
    /\ UNCHANGED otherThanScanner

\* _scan_sport: a 200 response.  Its events yield n opportunities, or their
\* processing raises and scan_once's handler reports the exception.
ResponseOk(n, raises) ==
    /\ pc = "request"
    /\ found' = IF raises THEN found ELSE found + n
    /\ sport_i' = sport_i + 1
    /\ pc' = "sports"
    /\ ev' = IF raises THEN NoticeEv("scan_exception", None, {Notice("error", None, None)})
                      ELSE ScanEv("scanned", None)
    /\ UNCHANGED <<running, force_stop, waiting_for_key, retry_count, client_key,
                   wait_left, stop_requested, fo_cycle>>
    /\ UNCHANGED poolVars
    /\ UNCHANGED schedVars
    /\ UNCHANGED otherThanScanner

\* _scan_sport: a failed response (a status other than 200, or a transport
\* failure with status 0), through handle_api_error() and failover().
ResponseError(status, err) ==
    /\ pc = "request"
    /\ IF ScannerQuotaError(status, err)
       THEN /\ last_error' = LastError(status, err)
            /\ IF PoolQuotaError(status, err)
               THEN LET marked == MarkInvalid(keys, current_index)
                        r == NextValid(marked, current_index)
                    IN /\ failover_count < MaxFailovers
                       /\ failover_count' = failover_count + 1
                       /\ keys' = marked
                       /\ current_index' = r.idx
                       /\ IF r.found
                          THEN /\ fo_cycle' = TRUE
                               /\ ev' = ErrEv("failover_ok", current_key(keys', current_index'),
                                              status, err,
                                              {Notice("failover_notice",
                                                      current_key(keys, current_index),
                                                      current_key(keys', current_index'))})
                               /\ pc' = "sports"
                               /\ sport_i' = sport_i + 1
                               /\ UNCHANGED <<waiting_for_key, lock>>
                          ELSE IF auto_generate
                          THEN /\ lock' = 1
                               /\ pc' = "fo_gen"
                               /\ ev' = ErrEv("fo_gen_start", None, status, err, {})
                               /\ UNCHANGED <<waiting_for_key, sport_i, fo_cycle>>
                          ELSE /\ waiting_for_key' = TRUE
                               /\ ev' = ErrEv("quota_fail", None, status, err, {Notice("error", None, None)})
                               /\ pc' = "sports"
                               /\ sport_i' = sport_i + 1
                               /\ UNCHANGED <<lock, fo_cycle>>
               ELSE /\ waiting_for_key' = TRUE
                    /\ ev' = ErrEv("quota_fail", None, status, err, {Notice("error", None, None)})
                    /\ pc' = "sports"
                    /\ sport_i' = sport_i + 1
                    /\ UNCHANGED <<keys, current_index, failover_count, lock, fo_cycle>>
       ELSE /\ ev' = ErrEv("error_reported", None, status, err, {Notice("error", None, None)})
            /\ pc' = "sports"
            /\ sport_i' = sport_i + 1
            /\ UNCHANGED <<keys, current_index, failover_count, last_error, lock,
                           waiting_for_key, fo_cycle>>
    /\ UNCHANGED <<running, force_stop, retry_count, client_key, wait_left, found,
                   stop_requested>>
    /\ UNCHANGED <<file, auto_generate, lockq, sameFile, genCount>>
    /\ UNCHANGED schedVars
    /\ UNCHANGED otherThanScanner

\* failover() inside _scan_sport: generate_new_key() returned.
FailoverGenDone(ok) ==
    /\ pc = "fo_gen"
    /\ IF ok
       THEN /\ genCount < MaxGen
            /\ file' = GenerateAppend(file, sameFile)
            /\ keys' = load_keys(file')
            /\ current_index' = Len(keys') - 1
            /\ genCount' = genCount + 1
            /\ fo_cycle' = TRUE
            /\ ev' = NoticeEv("failover_ok", current_key(keys', current_index'),
                              {Notice("failover_notice",
                                      current_key(keys, current_index),
                                      current_key(keys', current_index'))})
            /\ UNCHANGED waiting_for_key
       ELSE /\ waiting_for_key' = TRUE
            /\ ev' = NoticeEv("quota_fail", None, {Notice("error", None, None)})
            /\ UNCHANGED <<file, keys, current_index, genCount, fo_cycle>>
    /\ lock' = 0
    /\ pc' = "sports"
    /\ sport_i' = sport_i + 1
    /\ UNCHANGED <<running, force_stop, retry_count, client_key, wait_left, found,
                   stop_requested>>
    /\ UNCHANGED <<auto_generate, failover_count, last_error, lockq, sameFile>>
    /\ UNCHANGED schedVars
    /\ UNCHANGED otherThanScanner

\* scan_once: one turn of the loop that pushes, notifies and saves; a failed
\* notification only returns False, a failed save raises into run()'s handler,
\* which reports it and sleeps.  After the loop run() sleeps.
NotifyAndSave(notified, saved) ==
    /\ pc = "notify"
    /\ IF found = 0
       THEN /\ pc' = "sleep"
            /\ ev' = ScanEv("cycle_end", None)
            /\ UNCHANGED found
       ELSE IF saved
       THEN /\ found' = found - 1
            /\ pc' = "notify"
            /\ ev' = NoticeEv(IF notified THEN "notified" ELSE "notify_failed", None,
                            {Notice("surebet_alert", None, None)})
       ELSE /\ found' = 0
            /\ pc' = "sleep"
            /\ ev' = NoticeEv("loop_exception", None, {Notice("surebet_alert", None, None), Notice("error", None, None)})
    /\ UNCHANGED <<running, force_stop, waiting_for_key, retry_count, client_key,
                   sport_i, wait_left, stop_requested, fo_cycle>>
    /\ UNCHANGED poolVars
    /\ UNCHANGED schedVars
    /\ UNCHANGED otherThanScanner

\* run(): asyncio.sleep(current_interval) is over.
SleepDone ==
    /\ pc = "sleep"
    /\ pc' = "loop"
    /\ ev' = ScanEv("slept", None)
    /\ UNCHANGED <<running, force_stop, waiting_for_key, retry_count, client_key,
                   sport_i, wait_left, found, stop_requested, fo_cycle>>
    /\ UNCHANGED poolVars
    /\ UNCHANGED schedVars
    /\ UNCHANGED otherThanScanner

\* run(): after the loop.
RunExit ==
    /\ pc = "exit"
    /\ running' = FALSE
    /\ pc' = "stopped"
    /\ ev' = NoticeEv("stopped", None, IF force_stop THEN {Notice("stop", None, None)} ELSE {})
    /\ UNCHANGED <<force_stop, waiting_for_key, retry_count, client_key, sport_i,
                   wait_left, found, stop_requested, fo_cycle>>
    /\ UNCHANGED poolVars
    /\ UNCHANGED schedVars
    /\ UNCHANGED otherThanScanner

\* SurebetScanner.__init__
InitScanner ==
    /\ pc = "init"
    /\ running = FALSE
    /\ force_stop = FALSE
    /\ waiting_for_key = FALSE
    /\ retry_count = 0
    /\ client_key = NoClient
    /\ sport_i = 0
    /\ wait_left = 0
    /\ found = 0
    /\ stop_requested = FALSE
    /\ fo_cycle = FALSE
    /\ current_slot_name = None

\* main.run_bot: the pool is loaded and holds at least one key when run() starts.
InitLoadedPool ==
    /\ \E k \in 1..MaxKeys : file = [i \in 1..k |-> i]
    /\ keys = load_keys(file)
    /\ current_index = 0
    /\ auto_generate \in BOOLEAN
    /\ sameFile \in (IF auto_generate THEN BOOLEAN ELSE {FALSE})
    /\ failover_count = 0
    /\ last_error = NoError
    /\ lock = 0
    /\ lockq = <<>>
    /\ genCount = 0

IdleCooldown == InitCooldown

(***************************************************************************)
(* OddsClient: _request() called by concurrent tasks.  Time is counted in  *)
(* seconds; the two clocks of the model count up to request_delay, beyond  *)
(* which the code makes no difference.                                     *)
(***************************************************************************)
\* The tasks that call _request() on one client.
Tasks == 1..NTasks

\* A client whose lock does not hold callers back.
ClientLockFree_Unguarded == TRUE

\* asyncio.Lock: acquire() returns at once when the lock is free and nobody waits.
ClientLockFree == cl_lock = 0 /\ cl_lockq = <<>>

\* _request: the time to sleep before the GET (0: no sleep).
WaitTime(set, elapsed) ==
    IF set /\ elapsed < request_delay THEN request_delay - elapsed ELSE 0

\* A client that records the time of successful requests only.
StampedOutcome_SuccessOnly(ok) == ok

\* _request: the outcomes after which self._last_request_time is set.
StampedOutcome(ok) == TRUE

\* _request, with the lock in hand: sleep out the delay or send the GET.
RequestBody(c) ==
    LET wait_time == WaitTime(last_set, since_last) IN
    /\ cl_lock' = c
    /\ IF wait_time > 0
       THEN /\ cl_pc' = [cl_pc EXCEPT ![c] = "sleeping"]
            /\ sleep_left' = wait_time
            /\ ev' = OtherEv("cl_sleep", c)
       ELSE /\ cl_pc' = [cl_pc EXCEPT ![c] = "inflight"]
            /\ sleep_left' = 0
            /\ ev' = OtherEv("cl_issue", c)
    /\ UNCHANGED <<last_set, since_last, since_done>>

\* _request() is called: the body runs at once, or the task queues on the lock.
Request(c) ==
    /\ cl_pc[c] = "idle"
    /\ IF ClientLockFree
       THEN RequestBody(c) /\ UNCHANGED cl_lockq
       ELSE /\ cl_pc' = [cl_pc EXCEPT ![c] = "waitlock"]
            /\ cl_lockq' = Append(cl_lockq, c)
            /\ ev' = OtherEv("cl_wait", c)
            /\ UNCHANGED <<cl_lock, last_set, since_last, sleep_left, since_done>>
    /\ UNCHANGED otherThanClient

\* The lock was released and its first waiter resumes inside _request().
ClientWaiterProceeds(c) ==
    /\ cl_pc[c] = "waitlock"
    /\ cl_lock = 0
    /\ cl_lockq # <<>>
    /\ Head(cl_lockq) = c
    /\ cl_lockq' = Tail(cl_lockq)
    /\ RequestBody(c)
    /\ UNCHANGED otherThanClient

\* asyncio.sleep(wait_time) is over: the GET is sent.
SleepOver(c) ==
    /\ cl_pc[c] = "sleeping"
    /\ sleep_left = 0
    /\ cl_pc' = [cl_pc EXCEPT ![c] = "inflight"]
    /\ ev' = OtherEv("cl_issue_slept", c)
    /\ UNCHANGED <<cl_lock, cl_lockq, last_set, since_last, sleep_left, since_done>>
    /\ UNCHANGED otherThanClient

\* The response arrived (ok: status 200; otherwise another status or a
\* transport exception): the time is recorded and the lock released.
ResponseReceived(c, ok) ==
    /\ cl_pc[c] = "inflight"
    /\ cl_pc' = [cl_pc EXCEPT ![c] = "idle"]
    /\ cl_lock' = 0
    /\ IF StampedOutcome(ok)
       THEN last_set' = TRUE /\ since_last' = 0
       ELSE UNCHANGED <<last_set, since_last>>
    /\ since_done' = 0
    /\ ev' = OtherEv("cl_done", c)
    /\ UNCHANGED <<cl_lockq, sleep_left>>
    /\ UNCHANGED otherThanClient

\* One second passes.
ClientTick ==
    /\ since_last' = IF last_set THEN Min(since_last + 1, request_delay) ELSE since_last
    /\ since_done' = IF since_done >= 0 THEN Min(since_done + 1, request_delay) ELSE since_done
    /\ sleep_left' = IF sleep_left > 0 THEN sleep_left - 1 ELSE 0
    /\ ev' = OtherEv("cl_tick", 0)
    /\ UNCHANGED <<cl_lock, cl_lockq, cl_pc, last_set>>
    /\ UNCHANGED otherThanClient

\* OddsClient.__init__
InitClient ==
    /\ cl_lock = 0
    /\ cl_lockq = <<>>
    /\ cl_pc = [c \in Tasks |-> "idle"]
    /\ last_set = FALSE
    /\ since_last = 0
    /\ sleep_left = 0
    /\ since_done = -1

NextClient ==
    \/ \E c \in Tasks : Request(c)
    \/ \E c \in Tasks : ClientWaiterProceeds(c)
    \/ \E c \in Tasks : SleepOver(c)
    \/ \E c \in Tasks, ok \in BOOLEAN : ResponseReceived(c, ok)
    \/ ClientTick

\* The steps of _request() and of the clock, none of which is held back forever.
ClientStep ==
    \/ \E c \in Tasks : ClientWaiterProceeds(c)
    \/ \E c \in Tasks : SleepOver(c)
    \/ \E c \in Tasks, ok \in BOOLEAN : ResponseReceived(c, ok)

(***************************************************************************)
(* SmartScheduler over the slot table of constants.py.  A slot is named by *)
(* its rank in SLOT_PRIORITY.  The scanner's specification keeps the       *)
(* recorded slot only; the counter read by get_stats() is kept here.       *)
(***************************************************************************)
live_weekend == 1
evening_weekday == 2
boosted_odds == 3
morning_realignment == 4
default == 5

SLOT_PRIORITY == <<live_weekend, evening_weekday, boosted_odds, morning_realignment, default>>

\* SCHEDULE_SLOTS: the days and the hours (start, end) of each slot.
SCHEDULE_SLOTS ==
    [n \in 1..5 |->
        CASE n = live_weekend        -> [days |-> {5, 6}, hours |-> <<14, 22>>]
          [] n = evening_weekday     -> [days |-> 0..4,   hours |-> <<19, 21>>]
          [] n = boosted_odds        -> [days |-> 0..6,   hours |-> <<17, 20>>]
          [] n = morning_realignment -> [days |-> 0..6,   hours |-> <<9, 10>>]
          [] n = default             -> [days |-> 0..6,   hours |-> <<0, 24>>]]

\* A slot whose hours include their end.
InHours_Closed(start_h, end_h, h) == start_h <= h /\ h <= end_h

\* get_current_slot: start_h <= hour < end_h
InHours(start_h, end_h, h) == start_h <= h /\ h < end_h

\* get_current_slot: the loop over SLOT_PRIORITY from rank i, then the fallback.
RECURSIVE SlotFrom(_, _, _)
SlotFrom(i, wd, h) ==
    IF i > Len(SLOT_PRIORITY) THEN default
    ELSE LET slot == SCHEDULE_SLOTS[SLOT_PRIORITY[i]] IN
         IF wd \in slot.days /\ InHours(slot.hours[1], slot.hours[2], h)
         THEN SLOT_PRIORITY[i]
         ELSE SlotFrom(i + 1, wd, h)

get_current_slot(wd, h) == SlotFrom(1, wd, h)

\* has_slot_changed: the calls that increment self._slot_change_count.
CountsChange(cur, new_name) == cur # None /\ new_name # cur

SchedEv(kind, ret) == [kind |-> kind, c |-> 0, res |-> FALSE, start |-> None, ret |-> ret]

\* An hour passes on the clock behind now_func.
HourPasses ==
    /\ hour' = (hour + 1) % 24
    /\ weekday' = IF hour = 23 THEN (weekday + 1) % 7 ELSE weekday
    /\ ev' = SchedEv("hour", <<weekday', hour'>>)
    /\ UNCHANGED <<current_slot_name, slot_change_count, notified_matches, changes_reported,
                   sports, events>>
    /\ UNCHANGED otherThanScheduler

\* A sport key "family_league" and the sports the model draws from.
Sport(family, league) == [family |-> family, league |-> league]
SportKeys ==
    {Sport("soccer", "epl"), Sport("soccer", "france_ligue_one"), Sport("basketball", "nba"),
     Sport("tennis", "atp_wimbledon"), Sport("americanfootball", "nfl"),
     Sport("icehockey", "nhl")}

\* The dicts of at most MaxSports sports: their keys, in insertion order.
SportDicts ==
    {q \in UNION {[1..n -> SportKeys] : n \in 0..MaxSports} :
        \A i, j \in 1..Len(q) : i # j => q[i] # q[j]}

\* SPORT_PRIORITY: a pattern "family_*" is kept as its family, "*" as "*".
SPORT_PRIORITY ==
    [n \in 1..5 |->
        CASE n = live_weekend        -> <<"soccer", "basketball", "tennis">>
          [] n = evening_weekday     -> <<"soccer", "basketball">>
          [] n = boosted_odds        -> <<"soccer">>
          [] n = morning_realignment -> <<"basketball", "americanfootball", "soccer">>
          [] n = default             -> <<"*">>]

\* fnmatch.fnmatch(sport_key, pattern) for the patterns of SPORT_PRIORITY.
fnmatch(sport_key, pattern) == pattern = "*" \/ sport_key.family = pattern

\* A prioritisation that keeps the sports matching a pattern only.
RECURSIVE prioritize_sports_MatchedOnly(_, _)
prioritize_sports_MatchedOnly(patterns, remaining) ==
    IF patterns = <<>> THEN <<>>
    ELSE LET Hit(k) == fnmatch(k, Head(patterns))
             Miss(k) == ~fnmatch(k, Head(patterns))
         IN SelectSeq(remaining, Hit)
              \o prioritize_sports_MatchedOnly(Tail(patterns), SelectSeq(remaining, Miss))

\* prioritize_sports: for each pattern in turn the remaining sports that match
\* it move to the result, in their order; then the rest is appended.
RECURSIVE prioritize_sports(_, _)
prioritize_sports(patterns, remaining) ==
    IF patterns = <<>> THEN remaining
    ELSE LET Hit(k) == fnmatch(k, Head(patterns))
             Miss(k) == ~fnmatch(k, Head(patterns))
         IN SelectSeq(remaining, Hit)
              \o prioritize_sports(Tail(patterns), SelectSeq(remaining, Miss))

\* prioritize_sports(sports)
PrioritizeSports ==
    LET slot_name == get_current_slot(weekday, hour)
        patterns == SPORT_PRIORITY[slot_name]
    IN /\ ev' = SchedEv("prioritize_sports",
                        [sports |-> sports, out |-> prioritize_sports(patterns, sports)])
       /\ UNCHANGED <<current_slot_name, schedulerVars>>
       /\ UNCHANGED otherThanScheduler

\* get_current_slot()
GetCurrentSlot ==
    /\ ev' = SchedEv("get_current_slot", get_current_slot(weekday, hour))
    /\ UNCHANGED <<current_slot_name, schedulerVars>>
    /\ UNCHANGED otherThanScheduler

\* has_slot_changed()
HasSlotChanged ==
    LET new_name == get_current_slot(weekday, hour)
        h == has_slot_changed(current_slot_name, new_name)
    IN /\ changes_reported < MaxSlotChanges
       /\ current_slot_name' = h.name
       /\ slot_change_count' = IF CountsChange(current_slot_name, new_name)
                                THEN slot_change_count + 1 ELSE slot_change_count
       /\ changes_reported' = IF h.changed THEN changes_reported + 1 ELSE changes_reported
       /\ ev' = SchedEv("has_slot_changed", <<h.changed, h.old, h.new>>)
       /\ UNCHANGED <<weekday, hour, notified_matches, sports, events>>
       /\ UNCHANGED otherThanScheduler

\* get_stats()["slot_changes"]
GetStats ==
    /\ ev' = SchedEv("get_stats", slot_change_count)
    /\ UNCHANGED <<current_slot_name, schedulerVars>>
    /\ UNCHANGED otherThanScheduler

\* SmartScheduler.__init__, with a clock.
InitScheduler ==
    /\ weekday \in 0..6
    /\ hour \in 0..23
    /\ slot_change_count = 0
    /\ notified_matches = {}
    /\ changes_reported = 0
    /\ sports = <<>>
    /\ events = <<>>

\* The scheduler of a specification that does not call it.
IdleScheduler ==
    /\ weekday = 0
    /\ hour = 0
    /\ slot_change_count = 0
    /\ notified_matches = {}
    /\ changes_reported = 0
    /\ sports = <<>>
    /\ events = <<>>

\* self.now in minutes since Monday 0h of the week of the clock.
NowMinutes(wd, h) == (wd * 24 + h) * 60

\* The "commence_time" of an event: the key is missing, or its value is an
\* empty string, a string that is no ISO 8601 date, a number, or an ISO 8601
\* date with the wall-clock time wall (in minutes since Monday 0h) and the
\* suffix tz ("Z", an offset, or none).
NoTime(kind) == [kind |-> kind, wall |-> 0, tz |-> ""]
IsoTime(wall, tz) == [kind |-> "iso", wall |-> wall, tz |-> tz]
Event(id, commence) == [id |-> id, commence |-> commence]

\* Events around Monday 19h; the id "" is that of an event without "id".
EventPool ==
    {Event("evt_1", IsoTime(1170, "Z")),        \* Monday 19:30
     Event("evt_2", IsoTime(1200, "Z")),        \* Monday 20:00
     Event("evt_1", IsoTime(1140, "")),         \* Monday 19:00, the id of another event
     Event("",      IsoTime(1185, "+01:00")),   \* Monday 19:45, no id
     Event("",      IsoTime(1190, "Z")),        \* Monday 19:50, no id
     Event("evt_2", IsoTime(1201, "Z")),        \* Monday 20:01
     Event("evt_3", NoTime("missing")),
     Event("evt_3", NoTime("invalid")),
     Event("evt_3", NoTime("number"))}

EventLists ==
    {q \in UNION {[1..n -> EventPool] : n \in 0..MaxEvents} :
        \A i, j \in 1..Len(q) : i # j => q[i] # q[j]}

\* get_upcoming_matches: "if not commence: continue"
Falsy(commence) == commence.kind \in {"missing", "empty"}

\* get_upcoming_matches: commence.endswith("Z") raises AttributeError on a
\* value that is no string; the handler catches ValueError and TypeError only.
ParseRaises(commence) == commence.kind = "number"

\* get_upcoming_matches: datetime.fromisoformat() raises ValueError.
ParseFails(commence) == commence.kind = "invalid"

\* get_upcoming_matches: the parsed date with its tzinfo replaced by None,
\* that is the wall-clock time as written, whatever the suffix.
Parse(commence) == commence.wall

\* get_upcoming_matches: now <= commence_dt <= threshold
InWindow(t, lo, minutes) == lo <= t /\ t <= lo + minutes

\* get_upcoming_matches: the loop over the events from the i-th, with the
\* notified set and the result so far.
RECURSIVE UpcomingFrom(_, _, _, _, _, _)
UpcomingFrom(evs, i, lo, minutes, notified, upcoming) ==
    IF i > Len(evs) THEN [raised |-> FALSE, out |-> upcoming, notified |-> notified]
    ELSE LET e == evs[i] IN
         IF Falsy(e.commence) THEN UpcomingFrom(evs, i + 1, lo, minutes, notified, upcoming)
         ELSE IF ParseRaises(e.commence)
         THEN [raised |-> TRUE, out |-> <<>>, notified |-> notified]
         ELSE IF ParseFails(e.commence)
         THEN UpcomingFrom(evs, i + 1, lo, minutes, notified, upcoming)
         ELSE IF InWindow(Parse(e.commence), lo, minutes) /\ e.id \notin notified
         THEN UpcomingFrom(evs, i + 1, lo, minutes, notified \cup {e.id}, Append(upcoming, e))
         ELSE UpcomingFrom(evs, i + 1, lo, minutes, notified, upcoming)

\* get_upcoming_matches(events, minutes)
GetUpcomingMatches(minutes) ==
    LET r == UpcomingFrom(events, 1, NowMinutes(weekday, hour), minutes, notified_matches, <<>>)
    IN /\ notified_matches' = r.notified
       /\ ev' = SchedEv("get_upcoming_matches",
                        [minutes |-> minutes, raised |-> r.raised, out |-> r.out])
       /\ UNCHANGED <<current_slot_name, weekday, hour, slot_change_count, changes_reported,
                      sports, events>>
       /\ UNCHANGED otherThanScheduler

\* clear_notified_matches()
ClearNotifiedMatches ==
    /\ notified_matches' = {}
    /\ ev' = SchedEv("clear_notified_matches", None)
    /\ UNCHANGED <<current_slot_name, weekday, hour, slot_change_count, changes_reported,
                   sports, events>>
    /\ UNCHANGED otherThanScheduler

\* The scheduler asked for the imminent matches as the hours pass.
NextUpcoming ==
    \/ HourPasses
    \/ \E minutes \in {30, LINEUP_ALERT_MINUTES} : GetUpcomingMatches(minutes)
    \/ ClearNotifiedMatches

\* The scheduler asked for the order of the sports as the hours pass.
NextPrioritize ==
    \/ HourPasses
    \/ PrioritizeSports

NextScheduler ==
    \/ HourPasses
    \/ GetCurrentSlot
    \/ HasSlotChanged
    \/ GetStats

(***************************************************************************)
(* The calculator (core/calculator.py).  Odds are counted in tenths (21 is *)
(* 2.1), stakes and gains in cents, percentages in hundredths of a         *)
(* percent.  A probability 1/o is held exactly, as a count of              *)
(* 1/OddsLcm-ths: OddsLcm is a common multiple of ten times every odds of  *)
(* OddsPool.                                                               *)
(***************************************************************************)
OddsPool == {5, 10, 15, 20, 21, 30, 31, 40, 60}
StakePool == {-5, 0, 1, 100}
OddsLists == UNION {[1..n -> OddsPool] : n \in 0..MaxOdds}

OddsLcm == 26040
Infinity == 2147483647

\* 1/o
Reciprocal(o) == (10 * OddsLcm) \div o

RECURSIVE SumOf(_)
SumOf(s) == IF s = <<>> THEN 0 ELSE Head(s) + SumOf(Tail(s))

\* calculate_implied_probability: the exact sum of the 1/o.
calculate_implied_probability(os) ==
    IF os = <<>> \/ \E i \in DOMAIN os : os[i] <= 0 THEN Infinity
    ELSE SumOf([i \in DOMAIN os |-> Reciprocal(os[i])])

\* The lists of odds whose probabilities sum to exactly 1 and whose sum in
\* double precision, taken left to right by sum(), falls below 1.0.
SumRoundsBelowOne ==
    {<<15, 60, 60>>, <<20, 30, 60>>, <<30, 20, 60>>, <<60, 15, 60>>,
     <<20, 60, 60, 60>>, <<30, 30, 60, 60>>, <<30, 40, 40, 60>>, <<30, 40, 60, 40>>,
     <<30, 60, 30, 60>>, <<40, 30, 40, 60>>, <<40, 30, 60, 40>>, <<40, 40, 30, 60>>,
     <<60, 20, 60, 60>>, <<60, 30, 30, 60>>, <<60, 60, 20, 60>>}

\* L < 1.0, on the double that sum() returned.
BelowOne(os, L) == L < OddsLcm \/ (L = OddsLcm /\ os \in SumRoundsBelowOne)

\* round(num / den): to the nearest integer, a half to the even one.
Round(num, den) ==
    LET q == num \div den
        r == num - q * den
    IN IF 2 * r > den \/ (2 * r = den /\ q % 2 = 1) THEN q + 1 ELSE q

ValueError(why) ==
    [raised |-> TRUE, why |-> why, is_surebet |-> FALSE, profit_pct |-> 0,
     profit_base_100 |-> 0, stakes |-> <<>>, implied_probability |-> 0]

SurebetResult(is_surebet, profit_pct, profit_base_100, stks, implied_probability) ==
    [raised |-> FALSE, why |-> "", is_surebet |-> is_surebet, profit_pct |-> profit_pct,
     profit_base_100 |-> profit_base_100, stakes |-> stks,
     implied_probability |-> implied_probability]

\* A validation that lets a single quote through.
TooFew_None(os) == FALSE

\* len(odds) < 2
TooFew(os) == Len(os) < 2

\* calculate_arbitrage(odds, total_stake)
calculate_arbitrage(os, total) ==
    IF os = <<>> THEN ValueError("empty")
    ELSE IF TooFew(os) THEN ValueError("fewer than two")
    ELSE IF \E i \in DOMAIN os : os[i] <= 10 THEN ValueError("odds")
    ELSE IF total <= 0 THEN ValueError("stake")
    ELSE LET L == calculate_implied_probability(os)
             is_surebet == BelowOne(os, L)
             profit_pct == Round(10000 * (OddsLcm - L), OddsLcm)
             implied == Round(10000 * L, OddsLcm)
         IN IF is_surebet
            THEN SurebetResult(TRUE, profit_pct,
                     Round(100 * total * (OddsLcm - L), L),
                     [i \in DOMAIN os |-> Round(100 * total * Reciprocal(os[i]), L)],
                     implied)
            ELSE SurebetResult(FALSE, profit_pct, 0,
                     [i \in DOMAIN os |-> Round(100 * total, Len(os))],
                     implied)

CalcEv(ret) == [kind |-> "calculate_arbitrage", c |-> 0, res |-> FALSE, start |-> None, ret |-> ret]

\* One call of calculate_arbitrage on the inputs at hand.
CalculateArbitrage ==
    /\ ev' = CalcEv(calculate_arbitrage(odds, total_stake))
    /\ UNCHANGED calcVars
    /\ UNCHANGED otherThanCalculator

InitCalculator ==
    /\ odds \in OddsLists
    /\ total_stake \in StakePool

\* The calculator of a specification that does not call it.
IdleCalculator ==
    /\ odds = <<>>
    /\ total_stake = 100

NextCalculator == CalculateArbitrage

(***************************************************************************)
(* SurebetScanner: detection of an arbitrage in one market of an event     *)
(* (core/scanner.py, _extract_markets and _find_arbitrage).  A text is the *)
(* sequence of its words; a dict is the sequence of its entries in         *)
(* insertion order; prices are odds in tenths.                             *)
(***************************************************************************)
Bookmakers == {"Betclic", "Unibet"}
MarketKeys == {"h2h", "totals", "spreads"}
NoPoint == 999      \* outcome.get("point") is None
DefaultStake == 100 \* total_stake: float = 100.0

\* One outcome of one market of one bookmaker of the event.
Quote(bookmaker, key, name, point, price) ==
    [bookmaker |-> bookmaker, key |-> key, name |-> name, point |-> point, price |-> price]

QuotePool(key) ==
    CASE key = "h2h" ->
            {Quote(b, key, n, NoPoint, p) :
                b \in Bookmakers, n \in {"Lyon", "Draw", "Lille"}, p \in {21, 40}}
      [] key = "totals" ->
            {Quote(b, key, n, pt, p) :
                b \in Bookmakers, n \in {"Over", "Under"}, pt \in {25, 35}, p \in {20, 21}}
      [] key = "spreads" ->
            {Quote(b, key, n, pt, p) :
                b \in Bookmakers, n \in {"Lyon", "Lille"}, pt \in {15, -15}, p \in {20, 21}}

EventsOf(key) == UNION {[1..n -> QuotePool(key)] : n \in 0..MaxQuotes}

\* The outcomes of a feed that also quotes prices of 0.5 and 1.0.
RawQuotePool(key) ==
    CASE key = "h2h" ->
            {Quote("Betclic", key, n, NoPoint, p) :
                n \in {"Lyon", "Draw", "Lille"}, p \in {5, 10, 21}}
      [] key = "totals" ->
            {Quote("Betclic", key, n, pt, p) :
                n \in {"Over", "Under"}, pt \in {25, 35}, p \in {5, 10, 21}}
      [] key = "spreads" ->
            {Quote("Betclic", key, n, pt, p) :
                n \in {"Lyon", "Lille"}, pt \in {15, -15}, p \in {5, 10, 21}}

RawEventsOf(key) == UNION {[1..n -> RawQuotePool(key)] : n \in 0..MaxQuotes}

Points == {15, -15, 25, 35}

\* f"{point}"
PointText(p) ==
    CASE p = 15 -> "1.5" [] p = -15 -> "-1.5" [] p = 25 -> "2.5" [] p = 35 -> "3.5"

\* float(text) succeeds
IsFloat(text) == \E p \in Points : PointText(p) = text

\* float(text)
Float(text) == CHOOSE p \in Points : PointText(p) = text

\* abs(handicap)
Abs(p) == IF p < 0 THEN -p ELSE p

\* f"{name} {point}", or name when the outcome has no point
FullName(name, point) == IF point # NoPoint THEN <<name, PointText(point)>> ELSE <<name>>

\* dict[k].append(x), the list created when k is new
AppendTo(d, k, x) ==
    IF \E i \in DOMAIN d : d[i].name = k
    THEN [i \in DOMAIN d |-> IF d[i].name = k THEN [d[i] EXCEPT !.odds = Append(@, x)] ELSE d[i]]
    ELSE Append(d, [name |-> k, odds |-> <<x>>])

\* An extraction that discards the non-positive prices only.
RECURSIVE extract_markets_NonPositive(_, _, _)
extract_markets_NonPositive(quotes, key, d) ==
    IF quotes = <<>> THEN d
    ELSE LET q == Head(quotes) IN
         IF q.key = key /\ q.price > 0
         THEN extract_markets_NonPositive(Tail(quotes), key,
                              AppendTo(d, FullName(q.name, q.point), <<q.bookmaker, q.price>>))
         ELSE extract_markets_NonPositive(Tail(quotes), key, d)

\* _extract_markets(event)[key]
RECURSIVE extract_markets(_, _, _)
extract_markets(quotes, key, d) ==
    IF quotes = <<>> THEN d
    ELSE LET q == Head(quotes) IN
         IF q.key = key /\ q.price > 10
         THEN extract_markets(Tail(quotes), key,
                              AppendTo(d, FullName(q.name, q.point), <<q.bookmaker, q.price>>))
         ELSE extract_markets(Tail(quotes), key, d)

\* A choice that takes the first quote of the list.
Best_First(list) == list[1]

\* max(list, key=lambda x: x[1]): the first of the quotes with the highest odds
Best(list) ==
    LET top == CHOOSE i \in DOMAIN list : \A j \in DOMAIN list : list[j][2] <= list[i][2]
        first == CHOOSE i \in DOMAIN list :
                    /\ list[i][2] = list[top][2]
                    /\ \A j \in DOMAIN list : list[j][2] = list[top][2] => i <= j
    IN list[first]

Leg(bookmaker, name, o) == [bookmaker |-> bookmaker, name |-> name, odds |-> o]

SurebetOpportunity(mkt, outcomes, result) ==
    [found |-> TRUE, market |-> mkt, outcomes |-> outcomes, result |-> result]

\* return None
NoOpportunity ==
    [found |-> FALSE, market |-> <<>>, outcomes |-> <<>>, result |-> ValueError("")]

\* _find_totals_arbitrage, first loop: the quotes of each line, by side.
RECURSIVE TotalsLines(_, _)
TotalsLines(md, lines) ==
    IF md = <<>> THEN lines
    ELSE LET parts == Head(md).name IN
         IF Len(parts) >= 2
         THEN LET side == parts[1]
                  line == parts[2]
                  ls == IF \E i \in DOMAIN lines : lines[i].line = line THEN lines
                        ELSE Append(lines, [line |-> line, Over |-> <<>>, Under |-> <<>>])
              IN TotalsLines(Tail(md),
                    [i \in DOMAIN ls |->
                        IF ls[i].line # line THEN ls[i]
                        ELSE IF side = "Over" THEN [ls[i] EXCEPT !.Over = @ \o Head(md).odds]
                        ELSE IF side = "Under" THEN [ls[i] EXCEPT !.Under = @ \o Head(md).odds]
                        ELSE ls[i]])
         ELSE TotalsLines(Tail(md), lines)

\* The result r of the rest of a loop that has just passed os to
\* calculate_arbitrage; calls: the odds lists passed to it, in order.
Called(os, r) == [r EXCEPT !.calls = <<os>> \o @]

\* return None, without a call of calculate_arbitrage
Nothing(cache) == [opp |-> NoOpportunity, cache |-> cache, calls |-> <<>>]

\* _find_totals_arbitrage, second loop.
RECURSIVE TotalsLoop(_, _, _, _)
TotalsLoop(lines, cache, t, match) ==
    IF lines = <<>> THEN Nothing(cache)
    ELSE LET sides == Head(lines) IN
         IF sides.Over = <<>> \/ sides.Under = <<>>
         THEN TotalsLoop(Tail(lines), cache, t, match)
         ELSE LET best_over == Best(sides.Over)
                  best_under == Best(sides.Under)
                  os == <<best_over[2], best_under[2]>>
                  result == calculate_arbitrage(os, DefaultStake)
                  id == Identifier(match, "totals", sides.line)
                  r == IsInCooldown(cache, id, t)
              IN IF ~result.is_surebet
                 THEN Called(os, TotalsLoop(Tail(lines), cache, t, match))
                 ELSE IF r.hit THEN Called(os, TotalsLoop(Tail(lines), r.cache, t, match))
                 ELSE [opp |-> SurebetOpportunity(<<"Totals", sides.line>>,
                                  <<Leg(best_over[1], <<"Over", sides.line>>, best_over[2]),
                                    Leg(best_under[1], <<"Under", sides.line>>, best_under[2])>>,
                                  result),
                       cache |-> AddCooldown(r.cache, id, t),
                       calls |-> <<os>>]

find_totals_arbitrage(md, cache, t, match) == TotalsLoop(TotalsLines(md, <<>>), cache, t, match)

\* The best quote of every outcome (or team) that has quotes.
RECURSIVE BestOdds(_)
BestOdds(entries) ==
    IF entries = <<>> THEN <<>>
    ELSE IF Head(entries).odds # <<>>
         THEN <<Leg(Best(Head(entries).odds)[1], Head(entries).name, Best(Head(entries).odds)[2])>>
                  \o BestOdds(Tail(entries))
         ELSE BestOdds(Tail(entries))

OddsValues(best_odds) == [i \in DOMAIN best_odds |-> best_odds[i].odds]

\* _find_h2h_arbitrage
find_h2h_arbitrage(md, cache, t, match) ==
    IF Len(md) < 2 THEN Nothing(cache)
    ELSE LET best_odds == BestOdds(md)
             os == OddsValues(best_odds)
             result == calculate_arbitrage(os, DefaultStake)
             id == Identifier(match, "h2h", "")
             r == IsInCooldown(cache, id, t)
         IN IF Len(best_odds) < 2 THEN Nothing(cache)
            ELSE IF ~result.is_surebet THEN Called(os, Nothing(cache))
            ELSE IF r.hit THEN Called(os, Nothing(r.cache))
            ELSE [opp |-> SurebetOpportunity(
                             IF Len(best_odds) = 3 THEN <<"1X2">> ELSE <<"Moneyline">>,
                             best_odds, result),
                  cache |-> AddCooldown(r.cache, id, t),
                  calls |-> <<os>>]

\* line_key = abs(handicap)
SpreadLineKey(handicap) == Abs(handicap)

\* _find_spreads_arbitrage, first loop: the quotes of each absolute line, by team.
RECURSIVE SpreadLines(_, _)
SpreadLines(md, lines) ==
    IF md = <<>> THEN lines
    ELSE LET parts == Head(md).name IN
         IF Len(parts) >= 2 /\ IsFloat(parts[2])
         THEN LET team == parts[1]
                  line_key == SpreadLineKey(Float(parts[2]))
                  ls == IF \E i \in DOMAIN lines : lines[i].line = line_key THEN lines
                        ELSE Append(lines, [line |-> line_key, teams |-> <<>>])
                  Extend(teams) ==
                      IF \E i \in DOMAIN teams : teams[i].name = team
                      THEN [i \in DOMAIN teams |->
                               IF teams[i].name = team
                               THEN [teams[i] EXCEPT !.odds = @ \o Head(md).odds]
                               ELSE teams[i]]
                      ELSE Append(teams, [name |-> team, odds |-> Head(md).odds])
              IN SpreadLines(Tail(md),
                    [i \in DOMAIN ls |->
                        IF ls[i].line = line_key
                        THEN [ls[i] EXCEPT !.teams = Extend(@)] ELSE ls[i]])
         ELSE SpreadLines(Tail(md), lines)

\* _find_spreads_arbitrage, second loop.
RECURSIVE SpreadsLoop(_, _, _, _)
SpreadsLoop(lines, cache, t, match) ==
    IF lines = <<>> THEN Nothing(cache)
    ELSE LET line == Head(lines).line
             teams == Head(lines).teams
             best_odds == BestOdds(teams)
             os == OddsValues(best_odds)
             result == calculate_arbitrage(os, DefaultStake)
             id == Identifier(match, "spreads", PointText(line))
             r == IsInCooldown(cache, id, t)
         IN IF Len(teams) < 2 THEN SpreadsLoop(Tail(lines), cache, t, match)
            ELSE IF Len(best_odds) < 2 THEN SpreadsLoop(Tail(lines), cache, t, match)
            ELSE IF ~result.is_surebet
                 THEN Called(os, SpreadsLoop(Tail(lines), cache, t, match))
            ELSE IF r.hit THEN Called(os, SpreadsLoop(Tail(lines), r.cache, t, match))
            ELSE [opp |-> SurebetOpportunity(<<"Spread", PointText(line)>>, best_odds, result),
                  cache |-> AddCooldown(r.cache, id, t),
                  calls |-> <<os>>]

find_spreads_arbitrage(md, cache, t, match) == SpreadsLoop(SpreadLines(md, <<>>), cache, t, match)

\* _find_arbitrage
find_arbitrage(md, key, cache, t, match) ==
    IF key = "totals" THEN find_totals_arbitrage(md, cache, t, match)
    ELSE IF key = "h2h" THEN find_h2h_arbitrage(md, cache, t, match)
    ELSE IF key = "spreads" THEN find_spreads_arbitrage(md, cache, t, match)
    ELSE Nothing(cache)

DetectEv(ret, calls) ==
    [kind |-> "find_arbitrage", c |-> 0, res |-> FALSE, start |-> None, ret |-> ret,
     calls |-> calls]

\* scan_sport, for one event: the markets are extracted and _find_arbitrage
\* is called on the market (the event has quotes for it).
FindArbitrage ==
    /\ \E i \in DOMAIN event : event[i].key = market
    /\ LET r == find_arbitrage(extract_markets(event, market, <<>>), market,
                               cooldown_cache, now, "Lyon vs Lille")
       IN /\ cooldown_cache' = r.cache
          /\ ev' = DetectEv(r.opp, r.calls)
    /\ UNCHANGED detectVars
    /\ UNCHANGED otherThanDetection

InitDetection ==
    /\ market \in MarketKeys
    /\ event \in EventsOf(market)

NextDetection == FindArbitrage

\* The detection of a specification that does not call it.
IdleDetection ==
    /\ event = <<>>
    /\ market = "h2h"

(***************************************************************************)
(* SurebetScanner over its OddsClient: the requests of _scan_sport, one    *)
(* after the other, through the client that _get_client() keeps or         *)
(* replaces.  The scanner is task 1 of the client; since_done runs on over *)
(* the replacement of the client, its other clocks belong to the client.   *)
(***************************************************************************)
\* _scan_sport: _get_client(), then client.get_odds() up to the sleep or the GET.
ScanSportRequest ==
    LET key == current_key(keys, current_index)
        fresh == client_key = NoClient \/ client_key # key
        set == IF fresh THEN FALSE ELSE last_set
        elapsed == IF fresh THEN 0 ELSE since_last
        wait_time == WaitTime(set, elapsed)
    IN /\ cl_pc[1] = "idle"
       /\ client_key' = GetClient(client_key, key)
       /\ last_set' = set
       /\ since_last' = elapsed
       /\ cl_lock' = 1
       /\ IF wait_time > 0
          THEN /\ cl_pc' = [cl_pc EXCEPT ![1] = "sleeping"]
               /\ sleep_left' = wait_time
               /\ ev' = OtherEv("cl_sleep", 1)
          ELSE /\ cl_pc' = [cl_pc EXCEPT ![1] = "inflight"]
               /\ sleep_left' = 0
               /\ ev' = OtherEv("cl_issue", 1)
       /\ UNCHANGED <<cl_lockq, since_done>>
       /\ UNCHANGED <<pc, running, force_stop, waiting_for_key, retry_count, sport_i,
                      wait_left, found, stop_requested, fo_cycle, schedVars>>
       /\ UNCHANGED <<poolVars, callerVars, cdVars, schedulerVars, calcVars, detectVars>>

\* _scan_sport: the response is a quota error, handle_api_error() runs
\* failover(), which finds another valid key.
ResponseQuotaFailover ==
    LET marked == MarkInvalid(keys, current_index)
        r == NextValid(marked, current_index)
    IN /\ cl_pc[1] = "inflight"
       /\ r.found
       /\ failover_count < MaxFailovers
       /\ failover_count' = failover_count + 1
       /\ keys' = marked
       /\ current_index' = r.idx
       /\ cl_pc' = [cl_pc EXCEPT ![1] = "idle"]
       /\ cl_lock' = 0
       /\ last_set' = TRUE
       /\ since_last' = 0
       /\ since_done' = 0
       /\ ev' = OtherEv("cl_done_failover", 1)
       /\ UNCHANGED <<cl_lockq, sleep_left>>
       /\ UNCHANGED <<file, auto_generate, last_error, lock, lockq, sameFile, genCount>>
       /\ UNCHANGED <<callerVars, cdVars, scanVars, schedulerVars, calcVars, detectVars>>

NextScanClient ==
    \/ ScanSportRequest
    \/ SleepOver(1)
    \/ \E ok \in BOOLEAN : ResponseReceived(1, ok)
    \/ ResponseQuotaFailover
    \/ ClientTick

(***************************************************************************)
(* Specifications.                                                         *)
(***************************************************************************)
InitPoolAlone ==
    /\ InitPool /\ IdleCooldown /\ InitScanner /\ InitClient /\ IdleScheduler
    /\ IdleCalculator /\ IdleDetection
SpecPool == InitPoolAlone /\ [][NextPool]_vars

InitCooldownAlone ==
    /\ InitCooldown /\ IdlePool /\ IdleCallers /\ InitScanner /\ InitClient
    /\ IdleScheduler /\ IdleCalculator /\ IdleDetection /\ ev = NoEv
SpecCooldown == InitCooldownAlone /\ [][NextCooldown]_vars

Next ==
    \/ RunStart
    \/ RequestStop
    \/ LoopTop
    \/ \E new_name \in Slots : AfterCommands(new_name)
    \/ WaitLoop
    \/ \E ok \in BOOLEAN : RegenDone(ok)
    \/ RegenReturn
    \/ SportStep
    \/ IssueRequest
    \/ \E n \in 0..MaxFound, raises \in BOOLEAN : ResponseOk(n, raises)
    \/ \E status \in Statuses, err \in Bodies : ResponseError(status, err)
    \/ \E ok \in BOOLEAN : FailoverGenDone(ok)
    \/ \E notified \in BOOLEAN, saved \in BOOLEAN : NotifyAndSave(notified, saved)
    \/ SleepDone
    \/ RunExit

Init ==
    /\ InitLoadedPool /\ IdleCallers /\ IdleCooldown /\ InitScanner /\ InitClient
    /\ IdleScheduler /\ IdleCalculator /\ IdleDetection /\ ev = NoEv
Spec == Init /\ [][Next]_vars

\* The steps of run() itself: every await it is suspended at completes (the
\* operation in progress and the sleeps terminate).  request_stop() is the
\* environment's and is under no obligation to happen.
ScannerStep ==
    \/ RunStart
    \/ LoopTop
    \/ \E new_name \in Slots : AfterCommands(new_name)
    \/ WaitLoop
    \/ \E ok \in BOOLEAN : RegenDone(ok)
    \/ RegenReturn
    \/ SportStep
    \/ IssueRequest
    \/ \E n \in 0..MaxFound, raises \in BOOLEAN : ResponseOk(n, raises)
    \/ \E status \in Statuses, err \in Bodies : ResponseError(status, err)
    \/ \E ok \in BOOLEAN : FailoverGenDone(ok)
    \/ \E notified \in BOOLEAN, saved \in BOOLEAN : NotifyAndSave(notified, saved)
    \/ SleepDone
    \/ RunExit

SpecFair == Init /\ [][Next]_vars /\ WF_vars(ScannerStep)

\* SurebetScanner built over a pool whose keys file may hold no line at all.
InitAnyPool ==
    /\ \E k \in 0..MaxKeys : file = [i \in 1..k |-> i]
    /\ keys = load_keys(file)
    /\ current_index = 0
    /\ auto_generate \in BOOLEAN
    /\ sameFile \in (IF auto_generate THEN BOOLEAN ELSE {FALSE})
    /\ failover_count = 0
    /\ last_error = NoError
    /\ lock = 0
    /\ lockq = <<>>
    /\ genCount = 0

InitRunAnyPool ==
    /\ InitAnyPool /\ IdleCallers /\ IdleCooldown /\ InitScanner /\ InitClient
    /\ IdleScheduler /\ IdleCalculator /\ IdleDetection /\ ev = NoEv
SpecRunAnyPool == InitRunAnyPool /\ [][Next]_vars

SpecScanClient == Init /\ [][NextScanClient]_vars

InitClientAlone ==
    /\ InitClient /\ IdlePool /\ IdleCallers /\ IdleCooldown /\ InitScanner
    /\ IdleScheduler /\ IdleCalculator /\ IdleDetection /\ ev = NoEv
SpecClient ==
    InitClientAlone /\ [][NextClient]_vars /\ WF_vars(ClientStep) /\ WF_vars(ClientTick)

InitSchedulerAlone ==
    /\ InitScheduler /\ IdlePool /\ IdleCallers /\ IdleCooldown /\ InitScanner
    /\ InitClient /\ IdleCalculator /\ IdleDetection /\ ev = NoEv
SpecScheduler == InitSchedulerAlone /\ [][NextScheduler]_vars

InitPrioritizeAlone ==
    /\ weekday \in 0..6 /\ hour \in 0..23
    /\ sports \in SportDicts
    /\ events = <<>>
    /\ slot_change_count = 0 /\ notified_matches = {} /\ changes_reported = 0
    /\ IdlePool /\ IdleCallers /\ IdleCooldown /\ InitScanner /\ InitClient
    /\ IdleCalculator /\ IdleDetection /\ ev = NoEv
SpecPrioritize == InitPrioritizeAlone /\ [][NextPrioritize]_vars

InitUpcomingAlone ==
    /\ weekday \in 0..6 /\ hour \in 0..23
    /\ events \in EventLists
    /\ sports = <<>>
    /\ slot_change_count = 0 /\ notified_matches = {} /\ changes_reported = 0
    /\ IdlePool /\ IdleCallers /\ IdleCooldown /\ InitScanner /\ InitClient
    /\ IdleCalculator /\ IdleDetection /\ ev = NoEv
SpecUpcoming == InitUpcomingAlone /\ [][NextUpcoming]_vars

InitCalculatorAlone ==
    /\ InitCalculator /\ IdlePool /\ IdleCallers /\ IdleCooldown /\ InitScanner
    /\ InitClient /\ IdleScheduler /\ IdleDetection /\ ev = NoEv
SpecCalculator == InitCalculatorAlone /\ [][NextCalculator]_vars

InitDetectionAlone ==
    /\ InitDetection /\ IdlePool /\ IdleCallers /\ InitCooldown /\ InitScanner
    /\ InitClient /\ IdleScheduler /\ IdleCalculator /\ ev = NoEv
SpecDetection == InitDetectionAlone /\ [][NextDetection]_vars

\* The detection on events whose quotes include prices of 1.0 and below.
InitRawDetection ==
    /\ market \in MarketKeys
    /\ event \in RawEventsOf(market)

InitExtractionAlone ==
    /\ InitRawDetection /\ IdlePool /\ IdleCallers /\ InitCooldown /\ InitScanner
    /\ InitClient /\ IdleScheduler /\ IdleCalculator /\ ev = NoEv
SpecExtraction == InitExtractionAlone /\ [][NextDetection]_vars

(***************************************************************************)
(* Properties of the cooldown cache (checked under SpecCooldown).          *)
(***************************************************************************)
\* C1: for one identifier, a detection less than the cooldown window after its
\* last emission emits nothing, and a detection that has no earlier emission,
\* or comes after the window of the last emission has expired, emits its
\* Opportunity; whatever purges happened in between.
C1_CooldownOneEmissionPerWindow ==
    [][ ev'.kind = "find" =>
          \A d \in ev'.dets :
              /\ (d.prev >= 0 /\ now - d.prev < cooldown_minutes) => ~d.emitted
              /\ (d.prev < 0 \/ now - d.prev > cooldown_minutes) => d.emitted ]_vars

\* One call skips a line still in cooldown and emits again a line whose entry
\* a purge had removed after its window expired.
C1_Witness ==
    /\ ev.kind = "find"
    /\ \E d \in ev.dets : ~d.emitted /\ d.cached
    /\ \E d \in ev.dets : d.emitted /\ d.prev >= 0 /\ ~d.cached

(***************************************************************************)
(* Properties of the pool (checked under SpecPool).                        *)
(***************************************************************************)
ActiveValid ==
    /\ Len(keys) > 0
    /\ keys[PyIndex(keys, current_index)].is_valid

C3_SuccessActivatesOtherValid ==
    (ev.kind = "failover_ret" /\ ev.res) =>
        /\ ActiveValid
        /\ current_key(keys, current_index) # ev.start

\* C4: when two callers observed the failure of the same active credential C and
\* both reports have been processed, each report marked C and nothing else.
C4_ConcurrentReportsMarkOnce ==
    \A c1 \in Callers, c2 \in Callers :
        ( /\ c1 # c2
          /\ cobs[c1] # None
          /\ cobs[c1] = cobs[c2]
          /\ cmarked[c1] # None
          /\ cmarked[c2] # None
          /\ cpc[c1] = "idle"
          /\ cpc[c2] = "idle" )
        => (cmarked[c1] = cobs[c1] /\ cmarked[c2] = cobs[c2])

\* C5: a failover() that starts while the active credential is already invalid
\* leaves every credential's error_count unchanged.
C5_NoRecountOfInvalid ==
    [][ ( /\ failover_count' = failover_count + 1
          /\ Len(keys) > 0
          /\ ~keys[PyIndex(keys, current_index)].is_valid )
        => \A i \in 1..Len(keys) : keys'[i].error_count = keys[i].error_count ]_vars

\* C6: while a failover() holds the lock (it awaits the generation), a step of
\* another task's failover() only queues on the lock: it changes neither the
\* keys, the active index nor the failover count; and at most one task is
\* inside failover()'s body.
C6_FailoverMutuallyExclusive ==
    /\ [](\A c \in Callers : (cpc[c] = "generating") <=> (lock = c))
    /\ [][ (lock # 0 /\ ev'.c # lock /\ ev'.kind \in {"failover_ret", "generate", "wait"})
           => /\ ev'.kind = "wait"
              /\ UNCHANGED <<keys, current_index, failover_count>> ]_vars

C6_Witness ==
    \E c \in Callers, d \in Callers :
        /\ lock = c
        /\ cpc[c] = "generating"
        /\ cpc[d] = "waitlock"

(***************************************************************************)
(* Properties of the run loop (checked under Spec).                        *)
(***************************************************************************)
\* C7: a quota-class feed error whose failover fails puts the scanner in
\* AwaitingCredential (waiting_for_key); while it is there no feed request is
\* started or issued, in that cycle or a later iteration; and it leaves that
\* state only by a regeneration attempt that succeeded.
C7_NoRequestWhileAwaitingCredential ==
    [][ /\ (ev'.kind = "quota_fail" => waiting_for_key')
        /\ (waiting_for_key => ev'.kind \notin {"get_odds", "request"})
        /\ ((waiting_for_key /\ ~waiting_for_key') => ev'.kind = "regen_ok") ]_vars

\* Still waiting at the second backoff, the cycle that failed cut short.
C7_Witness ==
    /\ waiting_for_key
    /\ pc = "wait"
    /\ retry_count = 2
    /\ sport_i < NSports

\* C8: the GET of every feed request carries the credential that is active in
\* the pool when it leaves, also after a failover during the cycle.
C8_RequestCarriesActiveCredential ==
    ev.kind = "request" => ev.key = current_key(keys, current_index)

C8_Witness ==
    /\ ev.kind = "request"
    /\ fo_cycle
    /\ sport_i >= 1
    /\ ev.key # 1

\* C9: the run loop has ended only if request_stop() was called and the stop
\* flag is set.
C9_StoppedOnlyByStopRequest ==
    pc \in {"exit", "stopped"} => (stop_requested /\ force_stop)

\* Stopped on request, with the pool exhausted and the scanner still waiting.
C9_Witness ==
    /\ pc = "stopped"
    /\ stop_requested
    /\ waiting_for_key
    /\ valid_keys_count(keys) = 0

\* C10: once the stop flag is set, no step starts a feed request or a
\* credential-regeneration attempt.
C10_NoNewWorkAfterStop ==
    [][ force_stop => ev'.kind \notin {"get_odds", "regen_start"} ]_vars

(***************************************************************************)
(* Properties of the run loop under fair scheduling (SpecFair).            *)
(***************************************************************************)
\* Once the stop flag is set, run() reaches its end.
StopLeadsToStopped == force_stop ~> (pc = "stopped")

\* With the stop flag set, the step taken from the backoff wait leaves run()'s
\* loop: the wait is not finished and nothing else is started.
StopCutsTheWait == [][ (force_stop /\ pc = "wait") => pc' = "exit" ]_vars

\* With the stop flag set while scanning, no further sport is requested and
\* the loop is left at its next test.
StopCutsTheCycle ==
    [][ /\ (force_stop /\ pc = "sports") => pc' = "notify"
        /\ (force_stop /\ pc \in {"loop", "cmds"}) => pc' = "exit" ]_vars

\* C11: after the stop flag is set the run loop eventually ends in Stopped;
\* from Scanning at the next cycle boundary, from AwaitingCredential at the
\* next check of the backoff wait, without the wait being finished.
C11_StopTerminatesAtNextBoundary ==
    /\ StopLeadsToStopped
    /\ StopCutsTheCycle
    /\ StopCutsTheWait

(***************************************************************************)
(* Properties of the backoff (checked under Spec).                         *)
(***************************************************************************)
\* C12: the wait that precedes the n-th consecutive regeneration attempt is
\* min(n, 10) minutes of 30-second sleeps: it is not shorter than the wait
\* before, never longer than 10 minutes, and the attempt starts only when it
\* is over; the attempt count grows by one per attempt, a failed attempt keeps
\* it and a successful attempt resets it to 0.
C12_BackoffIsMinOfCountAndTen ==
    [][ /\ (pc # "wait" /\ pc' = "wait") =>
              /\ retry_count' = retry_count + 1
              /\ wait_left' * 30 = Min(retry_count', 10) * 60
              /\ wait_left' * 30 >= Min(retry_count, 10) * 60
              /\ wait_left' * 30 <= 10 * 60
        /\ (ev'.kind = "sleep30") => (wait_left' = wait_left - 1 /\ retry_count' = retry_count)
        /\ (ev'.kind = "regen_start") => (wait_left = 0 /\ retry_count' = retry_count)
        /\ (ev'.kind = "regen_failed") => (retry_count' = retry_count /\ retry_count >= 1)
        /\ (ev'.kind = "regen_ok") => retry_count' = 0 ]_vars

\* The twelfth attempt in a row starts, after a wait that met the cap.
C12_Witness ==
    /\ ev.kind = "regen_start"
    /\ retry_count = 12
    /\ wait_left = 0

\* A successful attempt clears waiting_for_key and, unless a stop comes in, the
\* same iteration of run() goes on to scan_once(), whose first sport is
\* requested; a failed attempt leaves waiting_for_key set and goes back to the
\* head of the loop (or out of it) without scanning.
RegenOutcomes ==
    [][ /\ (ev'.kind = "regen_ok") => ~waiting_for_key'
        /\ (pc = "regen_ok" /\ ~force_stop') => (pc' = "sports" /\ sport_i' = 0)
        /\ (pc = "sports" /\ sport_i = 0 /\ ~waiting_for_key /\ ~force_stop')
               => ev'.kind = "get_odds"
        /\ (ev'.kind = "regen_failed") =>
               (waiting_for_key' /\ pc' \in {"loop", "exit"}) ]_vars

\* If every stay in AwaitingCredential sees an attempt succeed (or a stop),
\* every stay in AwaitingCredential is followed by a feed request (or a stop).
RegenLeadsToScanning ==
    (waiting_for_key ~> (ev.kind = "regen_ok" \/ force_stop))
        => (waiting_for_key ~> (ev.kind = "get_odds" \/ force_stop))

\* C13: from AwaitingCredential a successful regeneration attempt returns the
\* scanner to Scanning and the same loop iteration scans; a failed attempt
\* leaves it waiting without scanning; if attempts do not fail forever and no
\* stop is requested, feed requests are eventually issued again.
C13_RegenerationResumesScanning ==
    /\ RegenOutcomes
    /\ RegenLeadsToScanning

\* The first request after a regeneration made by the backoff retry.
C13_Witness ==
    /\ ev.kind = "get_odds"
    /\ sport_i = 0
    /\ ~auto_generate
    /\ genCount = 1
    /\ ~waiting_for_key

(***************************************************************************)
(* Properties of the handling of feed errors (checked under Spec).         *)
(***************************************************************************)
\* C14: a failed response whose status is outside {401, 402, 429} (0 for a
\* transport failure) and whose text carries no quota marker is reported by a
\* Notifier error call, leaves the pool and waiting_for_key alone, and the scan
\* goes on with the next sport; within a cycle every sport gets at most one
\* get_odds() and one GET: after the request of sport i only sport i + 1 can
\* be requested.
C14_NonQuotaErrorReportedNoRetry ==
    [][ /\ ( /\ pc = "request"
             /\ ev'.status \notin {-1, 401, 402, 429}
             /\ ~HasQuotaLower(ev'.err)
             /\ ~HasOutOfCredits(ev'.err) )
           => /\ Notice("error", None, None) \in ev'.notices
              /\ pc' = "sports"
              /\ sport_i' = sport_i + 1
              /\ waiting_for_key' = waiting_for_key
              /\ UNCHANGED <<keys, current_index, failover_count>>
        /\ (ev'.kind = "get_odds") => (pc = "sports" /\ pc' = "ratelimit")
        /\ (ev'.kind = "request") => (pc = "ratelimit" /\ pc' = "request")
        /\ (pc = "ratelimit") => pc' \in {"ratelimit", "request"}
        /\ (pc = "request") => pc' \in {"request", "fo_gen", "sports"}
        /\ (pc = "fo_gen") => pc' \in {"fo_gen", "sports"}
        /\ (pc \in {"ratelimit", "request", "fo_gen"}) =>
               sport_i' = IF pc' = "sports" THEN sport_i + 1 ELSE sport_i
        /\ (pc = "sports" /\ pc' \in {"sports", "ratelimit"}) => sport_i' = sport_i ]_vars

\* A transport failure on the first sport was reported and the scan stands
\* before the second sport.
C14_Witness ==
    /\ ev.kind = "error_reported"
    /\ ev.status = 0
    /\ pc = "sports"
    /\ sport_i = 1
    /\ ~waiting_for_key

(***************************************************************************)
(* The feed client.                                                        *)
(***************************************************************************)
InFlight == {c \in Tasks : cl_pc[c] = "inflight"}

OneInFlight ==
    /\ Cardinality(InFlight) <= 1
    /\ \A c \in Tasks : cl_pc[c] \in {"sleeping", "inflight"} => cl_lock = c

IssuedAfterResponse ==
    [][ /\ (ev'.kind \in {"cl_issue", "cl_issue_slept"}) => InFlight = {}
        /\ \A c \in Tasks : (cl_pc[c] = "inflight" /\ cl_pc'[c] # "inflight")
                                => (cl_lock = c /\ cl_lock' = 0) ]_vars

NoTaskWaitsForever == \A c \in Tasks : (cl_pc[c] = "waitlock") ~> (cl_pc[c] = "inflight")

\* C15: whatever the number of concurrent callers of one feed client, at most
\* one request is in flight; a request is issued only when no response is
\* awaited; the lock is released when a request ends, whatever its outcome,
\* and every caller that waits for the lock gets to issue its request.
C15_OneRequestInFlight == []OneInFlight /\ IssuedAfterResponse /\ NoTaskWaitsForever

C15_Witness == cl_pc[1] = "inflight" /\ Len(cl_lockq) = 2 /\ since_done = request_delay

\* C16: a request of a client that already completed a request (successfully
\* or not) is issued at least request_delay after that completion, and the
\* first request of a client is issued without any wait.
C16_RequestsSpacedByDelay ==
    /\ (ev.kind \in {"cl_issue", "cl_issue_slept"})
          => (since_done = -1 \/ since_done >= request_delay)
    /\ (ev.kind = "cl_sleep") => (since_done >= 0 /\ sleep_left + since_done = request_delay)
    /\ (cl_lock # 0 /\ since_done = -1) => cl_pc[cl_lock] = "inflight"

C16_Witness ==
    /\ ev.kind = "cl_issue_slept"
    /\ since_done = request_delay
    /\ cl_lockq # <<>>

(***************************************************************************)
(* The pool: generation, validity marks, non-quota errors.                 *)
(***************************************************************************)
\* C17: failover() starts a generation only when it found no valid credential
\* and auto-generation is enabled; when the generation succeeds it reloads the
\* pool from the file that gained the new credential, returns success, and the
\* active credential is that new credential, the last entry of the reloaded
\* list; when the generation fails or times out it returns failure and
\* leaves the pool as it was.
C17_GenerationActivatesNewCredential ==
    [][ \A c \in Callers :
          /\ (cpc[c] # "generating" /\ cpc'[c] = "generating")
                => (auto_generate /\ valid_keys_count(keys') = 0 /\ lock' = c)
          /\ (cpc[c] = "generating" /\ cpc'[c] # "generating")
                => /\ ev'.kind = "failover_ret" /\ ev'.c = c
                   /\ ev'.res <=> (file' # file)
                   /\ ev'.res =>
                        /\ keys' = load_keys(file')
                        /\ PyIndex(keys', current_index') = Len(keys')
                        /\ current_key(keys', current_index') = MaxId(file) + 1
                        /\ current_key(keys', current_index') \notin Ids(keys)
                        /\ keys'[Len(keys')].is_valid
                   /\ ~ev'.res => UNCHANGED <<file, keys, current_index>> ]_vars

C17_Witness ==
    /\ ev.kind = "failover_ret" /\ ev.res
    /\ genCount = 1
    /\ Len(keys) = MaxKeys + 1
    /\ PyIndex(keys, current_index) = Len(keys)

Invalid(ks) == {ks[i].id : i \in {j \in 1..Len(ks) : ~ks[j].is_valid}}

\* C18: no step of the pool removes a credential or turns an invalid
\* credential valid again: the credentials of the list stay in it and the set
\* of those marked invalid only grows.
C18_InvalidOnlyGrows ==
    [][ Ids(keys) \subseteq Ids(keys') /\ Invalid(keys) \subseteq Invalid(keys') ]_vars

\* C19: handle_api_error(status, text) with a status outside {401, 402, 429}
\* and a text that holds none of the quota markers returns False and leaves
\* the keys file, the list of credentials (validity marks and error counts),
\* the active index, the failover count and the lock as they were; it changes
\* last_error only.
C19_NonQuotaErrorLeavesPool ==
    [][ \A c \in Callers :
          ( /\ cpc[c] = "observed" /\ cpc'[c] # "observed"
            /\ handled' # NoCall
            /\ handled'.status \notin {401, 402, 429}
            /\ ~HasQuotaLower(handled'.body)
            /\ ~HasOutOfCredits(handled'.body)
            /\ ~HasUsageLower(handled'.body) )
          => /\ ev' = OtherEv("not_quota", c)
             /\ cpc'[c] = "idle"
             /\ last_error' = LastError(handled'.status, handled'.body)
             /\ UNCHANGED <<file, keys, current_index, failover_count, lock, lockq,
                            genCount, auto_generate>> ]_vars

C19_Witness ==
    /\ ev.kind = "not_quota"
    /\ handled = Call(500, "server error")
    /\ last_error = LastError(500, "server error")
    /\ valid_keys_count(keys) = 1
    /\ failover_count = 1

(***************************************************************************)
(* The scanner's notices.                                                  *)
(***************************************************************************)
FailoverSucceeds ==
    \/ pc = "request" /\ failover_count' = failover_count + 1 /\ pc' = "sports"
                      /\ ~waiting_for_key'
    \/ pc = "fo_gen" /\ genCount' = genCount + 1

\* C20: the step of the scanner that detects a change of slot, that completes
\* a failover, that finds the pool exhausted or that starts a backoff retry
\* calls the notifier in that same step: the slot-change message with the old
\* and the new slot, the failover notice with the old and the new credential,
\* the error notice, the message that announces the wait.  The steps that
\* issue a feed request make none of these transitions, so the call comes
\* before the next request.
C20_TransitionsAreNotified ==
    [][ /\ (pc = "cmds" /\ current_slot_name' # current_slot_name)
            => Notice("slot_change", current_slot_name, current_slot_name') \in ev'.notices
        /\ FailoverSucceeds
            => Notice("failover_notice", current_key(keys, current_index),
                      current_key(keys', current_index')) \in ev'.notices
        /\ (~waiting_for_key /\ waiting_for_key')
            => Notice("error", None, None) \in ev'.notices
        /\ (pc # "wait" /\ pc' = "wait")
            => (retry_count' = retry_count + 1
                /\ Notice("retry_wait", None, None) \in ev'.notices)
        /\ (ev'.kind \in {"get_odds", "request"})
            => (ev'.notices = {}
                /\ UNCHANGED <<current_slot_name, waiting_for_key, keys, current_index,
                               failover_count, retry_count>>) ]_vars

C20_Witness ==
    /\ ev.kind = "backoff_start"
    /\ Notice("slot_change", 1, 2) \in ev.notices
    /\ Notice("retry_wait", None, None) \in ev.notices
    /\ retry_count = 2
    /\ failover_count = MaxKeys

(***************************************************************************)
(* Properties of the scheduler (checked under SpecScheduler).              *)
(***************************************************************************)
\* The slots other than the catch-all whose days and hours hold (wd, h).
MatchingSlots(wd, h) ==
    {n \in {live_weekend, evening_weekday, boosted_odds, morning_realignment} :
        /\ wd \in SCHEDULE_SLOTS[n].days
        /\ SCHEDULE_SLOTS[n].hours[1] <= h
        /\ h < SCHEDULE_SLOTS[n].hours[2]}

\* C21: for every weekday and hour, get_current_slot() returns one slot: the
\* matching slot of highest priority (days hold the weekday, start <= hour <
\* end), and the catch-all slot exactly when no other slot matches.  Saturday
\* 19h is live_weekend, Saturday 10h and Tuesday 3h are the catch-all.
C21_CurrentSlotIsFirstMatch ==
    (ev.kind = "get_current_slot") =>
        LET m == MatchingSlots(weekday, hour) IN
        /\ ev.ret \in 1..5
        /\ (ev.ret = default) <=> (m = {})
        /\ (m # {}) => (ev.ret \in m /\ \A n \in m : ev.ret <= n)
        /\ (weekday = 5 /\ hour = 19) => ev.ret = live_weekend
        /\ (weekday = 5 /\ hour = 10) => ev.ret = default
        /\ (weekday = 1 /\ hour = 3) => ev.ret = default
        /\ (weekday = 1 /\ hour = 20) => ev.ret = evening_weekday
        /\ (weekday = 3 /\ hour = 18) => ev.ret = boosted_odds
        /\ (weekday = 2 /\ hour = 9) => ev.ret = morning_realignment

C21_Witness ==
    /\ ev.kind = "get_current_slot"
    /\ weekday = 5 /\ hour = 19
    /\ ev.ret = live_weekend
    /\ boosted_odds \in MatchingSlots(weekday, hour)

\* C23: the first call of has_slot_changed() reports (True, None, slot now);
\* a later call reports a change exactly when the slot resolved now differs
\* from the recorded one, with the recorded slot as old and the slot now as
\* new; after any call the recorded slot is the slot resolved at that call,
\* and a call repeated at once reports no change.
C23_SlotChangeAgainstRecorded ==
    [][ (ev'.kind = "has_slot_changed") =>
          LET now_slot == get_current_slot(weekday, hour) IN
          /\ UNCHANGED <<weekday, hour>>
          /\ current_slot_name' = now_slot
          /\ IF current_slot_name = None
             THEN ev'.ret = <<TRUE, None, now_slot>>
             ELSE /\ ev'.ret[1] <=> (now_slot # current_slot_name)
                  /\ ev'.ret[1] => (ev'.ret[2] = current_slot_name /\ ev'.ret[3] = now_slot)
          /\ (ev.kind = "has_slot_changed") => ~ev'.ret[1] ]_vars

C23_Witness ==
    /\ ev.kind = "has_slot_changed"
    /\ ev.ret = <<TRUE, boosted_odds, evening_weekday>>
    /\ weekday = 1 /\ hour = 20
    /\ changes_reported = 2

\* C24: get_stats()["slot_changes"] is the number of calls of
\* has_slot_changed() that reported a change, the first call included.
C24_CounterCountsReportedChanges ==
    (ev.kind = "get_stats") => ev.ret = changes_reported

\* The rank of a sport under a list of patterns: the first pattern that
\* matches its key, one past the last pattern when none does.
FamilyPattern(k, p) == p = "*" \/ p = k.family
PatternRank(k, patterns) ==
    IF \E i \in 1..Len(patterns) : FamilyPattern(k, patterns[i])
    THEN CHOOSE i \in 1..Len(patterns) :
            /\ FamilyPattern(k, patterns[i])
            /\ \A j \in 1..(i - 1) : ~FamilyPattern(k, patterns[j])
    ELSE Len(patterns) + 1

PositionIn(q, k) == CHOOSE i \in 1..Len(q) : q[i] = k

\* C22: prioritize_sports returns its input reordered, no entry dropped or
\* duplicated: the sports that match the slot's first pattern, then those
\* that match the second and are not yet placed, and so on, then those that
\* match none; inside each group the input order is kept.  Under the
\* catch-all slot the order is unchanged; an empty input gives an empty
\* output.
C22_PrioritizeIsStableReordering ==
    (ev.kind = "prioritize_sports") =>
        LET in == ev.ret.sports
            out == ev.ret.out
            patterns == SPORT_PRIORITY[get_current_slot(weekday, hour)]
        IN /\ Len(out) = Len(in)
           /\ {out[i] : i \in 1..Len(out)} = {in[i] : i \in 1..Len(in)}
           /\ \A i, j \in 1..Len(out) : i < j =>
                 \/ PatternRank(out[i], patterns) < PatternRank(out[j], patterns)
                 \/ /\ PatternRank(out[i], patterns) = PatternRank(out[j], patterns)
                    /\ PositionIn(in, out[i]) < PositionIn(in, out[j])
           /\ (get_current_slot(weekday, hour) = default) => out = in
           /\ (in = <<>>) => out = <<>>

C22_Witness ==
    /\ ev.kind = "prioritize_sports"
    /\ get_current_slot(weekday, hour) = morning_realignment
    /\ ev.ret.sports = <<Sport("soccer", "epl"), Sport("icehockey", "nhl"), Sport("basketball", "nba")>>
    /\ ev.ret.out = <<Sport("basketball", "nba"), Sport("soccer", "epl"), Sport("icehockey", "nhl")>>

(***************************************************************************)
(* Properties of the imminent matches (checked under SpecUpcoming).        *)
(***************************************************************************)
Starts(e) == e.commence.kind = "iso"

\* C25: get_upcoming_matches returns, in their order, exactly the events
\* whose start time parses and lies in [now, now + minutes] and whose id was
\* not returned by an earlier call since the last clear, and records the ids
\* it returns and no other; events without a start time or with a malformed
\* one are skipped without error; a call repeated on the same events returns
\* nothing, and after clear_notified_matches() nothing is recorded.
C25_UpcomingAreNewEventsInWindow ==
    [][ /\ (ev'.kind = "get_upcoming_matches") =>
            LET lo == NowMinutes(weekday, hour)
                Due(e) == /\ Starts(e)
                          /\ lo <= e.commence.wall
                          /\ e.commence.wall <= lo + ev'.ret.minutes
                          /\ e.id \notin notified_matches
            IN /\ ~ev'.ret.raised
               /\ ev'.ret.out = SelectSeq(events, Due)
               /\ notified_matches' =
                     notified_matches \cup {ev'.ret.out[i].id : i \in 1..Len(ev'.ret.out)}
               /\ (ev.kind = "get_upcoming_matches" /\ ev.ret.minutes = ev'.ret.minutes)
                     => ev'.ret.out = <<>>
        /\ (ev'.kind = "clear_notified_matches") => notified_matches' = {} ]_vars

(***************************************************************************)
(* Properties of the calculator (checked under SpecCalculator).            *)
(***************************************************************************)
\* The call of calculate_arbitrage this step made returned a result.
Returned == ev.kind = "calculate_arbitrage" /\ ~ev.ret.raised

\* x is an integer nearest to num / den (den > 0).
Nearest(x, num, den) ==
    LET d == x * den - num IN 2 * d <= den /\ 2 * d >= -den

\* C26: for two or more odds, all above 1.0, and a positive total stake, the
\* result says arbitrage exactly when L, the sum of the 1/odds, is below 1, and
\* its profit percentage is (1 - L) * 100 rounded to two decimals.
C26_ArbitrageIffSumBelowOne ==
    Returned =>
        LET L == calculate_implied_probability(odds) IN
        /\ ev.ret.is_surebet <=> (L < OddsLcm)
        /\ Nearest(ev.ret.profit_pct, 10000 * (OddsLcm - L), OddsLcm)

\* C27: the stakes of an arbitrage result, rounded to two decimals, sum to the
\* total stake asked for, and stake * odds differs between any two outcomes by
\* at most 0.01 (stakes are in cents and odds in tenths: 0.01 is 10).
C27_StakesSumAndEqualise ==
    (Returned /\ ev.ret.is_surebet) =>
        /\ SumOf(ev.ret.stakes) = 100 * total_stake
        /\ \A i, j \in DOMAIN odds :
              ev.ret.stakes[i] * odds[i] - ev.ret.stakes[j] * odds[j] <= 10

\* C28: the calculator fails with an input error for an empty list, a list of
\* one element, any odds at or below 1.0 and a total stake at or below 0; on
\* every other input it returns a result.
C28_FailsExactlyOnInvalidInput ==
    (ev.kind = "calculate_arbitrage") =>
        (ev.ret.raised <=>
            \/ odds = <<>>
            \/ Len(odds) = 1
            \/ \E i \in DOMAIN odds : odds[i] <= 10
            \/ total_stake <= 0)

\* Odds of exactly 1.0 next to valid ones, with a valid stake: refused.
C28_Witness ==
    /\ ev.kind = "calculate_arbitrage"
    /\ odds = <<21, 10>>
    /\ total_stake = 100
    /\ ev.ret.raised

(***************************************************************************)
(* Properties of the detection (checked under SpecDetection).              *)
(***************************************************************************)
\* The call of _find_arbitrage this step made emitted an Opportunity.
Emitted == ev.kind = "find_arbitrage" /\ ev.ret.found

\* The quotes of the event that a leg of a spreads Opportunity can stand for:
\* those of its bookmaker, for its team, at its odds.
SpreadQuotesOf(leg) ==
    {i \in DOMAIN event :
        /\ event[i].key = "spreads"
        /\ event[i].bookmaker = leg.bookmaker
        /\ event[i].name = leg.name
        /\ event[i].price = leg.odds}

\* C29: an emitted spreads Opportunity pairs two different sides whose quotes
\* are for opposite handicaps of one magnitude (one at +h, the other at -h);
\* quotes with the same sign of handicap for both sides are never combined.
C29_SpreadsPairOppositeHandicaps ==
    (Emitted /\ market = "spreads") =>
        LET legs == ev.ret.outcomes IN
        /\ Len(legs) = 2
        /\ legs[1].name # legs[2].name
        /\ \E i \in SpreadQuotesOf(legs[1]), j \in SpreadQuotesOf(legs[2]) :
              event[i].point = -event[j].point

\* The quotes of the event for the outcome of a leg: the outcome's full name
\* for h2h and totals, the team at the line's magnitude for spreads.
QuotesFor(leg) ==
    {i \in DOMAIN event :
        /\ event[i].key = market
        /\ IF market = "spreads"
           THEN /\ event[i].name = leg.name
                /\ event[i].point # NoPoint
                /\ <<"Spread", PointText(Abs(event[i].point))>> = ev.ret.market
           ELSE FullName(event[i].name, event[i].point) = leg.name}

\* C30: each leg of an emitted Opportunity carries the highest odds quoted for
\* its outcome by any bookmaker of the event, with a bookmaker that quoted
\* them; the Over and Under legs of a totals Opportunity are of one line (so a
\* line quoted on one side only gives no Opportunity).
C30_LegsCarryBestOdds ==
    Emitted =>
        LET legs == ev.ret.outcomes IN
        /\ \A k \in DOMAIN legs :
              /\ \A i \in QuotesFor(legs[k]) : event[i].price <= legs[k].odds
              /\ \E i \in QuotesFor(legs[k]) :
                    /\ event[i].price = legs[k].odds
                    /\ event[i].bookmaker = legs[k].bookmaker
        /\ market = "totals" =>
              /\ Len(legs) = 2
              /\ legs[1].name[1] = "Over" /\ legs[2].name[1] = "Under"
              /\ legs[1].name[2] = legs[2].name[2]

\* Over 2.5 is quoted at 2.0 then at 2.1, Under 2.5 at 2.1, Under 3.5 alone:
\* the Opportunity is on 2.5 with the Over leg at 2.1 from its bookmaker.
C30_Witness ==
    /\ Emitted
    /\ market = "totals"
    /\ event = <<Quote("Betclic", "totals", "Over", 25, 20),
                 Quote("Unibet", "totals", "Over", 25, 21),
                 Quote("Betclic", "totals", "Under", 25, 21)>>
    /\ ev.ret.outcomes = <<Leg("Unibet", <<"Over", "2.5">>, 21),
                           Leg("Betclic", <<"Under", "2.5">>, 21)>>

(***************************************************************************)
(* Further properties of the pool (checked under SpecPool).                *)
(***************************************************************************)
\* C36: when at least one credential of the pool is valid, the active one is
\* valid; the active index is on an invalid credential only when all are
\* invalid, and a failover that fails leaves the index on the credential it
\* started from.
C36_ActiveValidWhenAnyValid ==
    /\ [](valid_keys_count(keys) >= 1 => keys[PyIndex(keys, current_index)].is_valid)
    /\ [][ (ev'.kind = "generate" \/ (ev'.kind = "failover_ret" /\ ~ev'.res))
              => current_index' = current_index ]_vars

\* A failover has just moved the pool from a credential it marked invalid to
\* a valid one.
C36_Witness ==
    /\ ev.kind = "failover_ret" /\ ev.res
    /\ \E i \in 1..Len(keys) : ~keys[i].is_valid
    /\ keys[PyIndex(keys, current_index)].is_valid

(***************************************************************************)
(* Further properties of the run loop (checked under Spec and SpecFair).   *)
(***************************************************************************)
\* C32: after a successful regeneration in the backoff path of run(), the
\* active credential of the pool is the credential just generated (the last
\* line of the keys file), and it is the one announced as the new key.
C32_RegenerationActivatesGenerated ==
    (ev.kind = "regen_ok") =>
        /\ current_key(keys, current_index) = keys[Len(keys)].id
        /\ ev.notices = {Notice("new_key", None, keys[Len(keys)].id)}

\* C33: with auto-generation disabled, generate_new_key() is never running
\* during a run: neither inside failover() nor inside the backoff of run().
C33_NoGenerationWhenDisabled ==
    ~auto_generate => pc \notin {"fo_gen", "regen"}

\* C39: whenever _scan_sport takes a failed response for a quota error and
\* calls handle_api_error(), the pool takes it for a quota error too and runs
\* failover() exactly once.
C39_ScannerQuotaIsPoolQuota ==
    [][ (ev'.status # -1 /\ ScannerQuotaError(ev'.status, ev'.err))
          => /\ PoolQuotaError(ev'.status, ev'.err)
             /\ last_error' = LastError(ev'.status, ev'.err)
             /\ failover_count' = failover_count + 1 ]_vars

\* A 500 whose body names the quota: the scanner goes by the body, and so
\* does the pool, whose failover succeeds.
C39_Witness ==
    /\ ev.kind = "failover_ok"
    /\ ev.status = 500
    /\ ev.err = "Quota exceeded"
    /\ failover_count = 1

\* C40: when the pool has no active credential, scanning a sport issues no
\* feed request: the scan of that sport ends at once with an error reported
\* through the notifier.
C40_EmptyPoolIssuesNoRequest ==
    [][ (pc = "sports" /\ ev'.kind \notin {"request_stop", "scan_end"}
           /\ current_key(keys, current_index) = None)
          => /\ pc' = "sports"
             /\ sport_i' = sport_i + 1
             /\ Notice("error", None, None) \in ev'.notices ]_vars

(***************************************************************************)
(* The requests of the scanner over its clients (checked under             *)
(* SpecScanClient).                                                        *)
(***************************************************************************)
\* C34: any two consecutive feed requests of the scanner are at least
\* request_delay apart, also when the active credential changed in between
\* and the scanner took a client for the new credential.
C34_ScannerRequestsSpaced ==
    (ev.kind \in {"cl_issue", "cl_issue_slept"})
        => (since_done = -1 \/ since_done >= request_delay)

(***************************************************************************)
(* Further properties of the cooldown cache (checked under SpecCooldown).  *)
(***************************************************************************)
\* C35: a detection suppressed by the cooldown does not extend it.  The
\* expiry of an identifier is set only by the emission of its Opportunity, to
\* the end of the window that begins then; so the expiry in the cache is
\* always that of the last emission, and a detection is suppressed only
\* within the window of the last emission.
C35_SuppressionDoesNotExtend ==
    /\ [](\A id \in DOMAIN cooldown_cache :
             lastEmit[id] >= 0 /\ cooldown_cache[id] = lastEmit[id] + cooldown_minutes)
    /\ [][ /\ \A id \in DOMAIN cooldown_cache' :
                 (id \notin DOMAIN cooldown_cache \/ cooldown_cache'[id] # cooldown_cache[id])
                    => /\ ev'.kind = "find"
                       /\ \E d \in ev'.dets : d.id = id /\ d.emitted
                       /\ cooldown_cache'[id] = now + cooldown_minutes
           /\ ev'.kind = "find" =>
                 \A d \in ev'.dets :
                     ~d.emitted => (d.prev >= 0 /\ now <= d.prev + cooldown_minutes) ]_vars

\* A detection is suppressed some time after the emission, and the expiry in
\* the cache is still that of the emission.
C35_Witness ==
    /\ ev.kind = "find"
    /\ \E d \in ev.dets :
          /\ ~d.emitted
          /\ now - d.prev >= 2
          /\ cooldown_cache[d.id] = d.prev + cooldown_minutes

\* The identifiers of the lines of one call, in the order of its loop.
LineIds(lines) == [i \in DOMAIN lines |-> Identifier("Lyon vs Lille", "totals", lines[i])]

\* C37: one scan of one market of an event emits at most one Opportunity.
\* Of several lines that each present an arbitrage, the first that is not in
\* cooldown is emitted and registered; the lines before it were in cooldown,
\* the lines after it are not registered and keep the cache entry they had.
C37_FirstFreeLineOnly ==
    [][ (ev'.kind = "find" /\ ev'.lines # <<>>) =>
          LET ids == LineIds(ev'.lines)
              emitted == {i \in DOMAIN ids : \E d \in ev'.dets : d.id = ids[i] /\ d.emitted}
          IN /\ Cardinality(emitted) <= 1
             /\ \A i \in emitted :
                   /\ \A j \in 1..(i - 1) :
                         /\ ids[j] \in DOMAIN cooldown_cache
                         /\ now <= cooldown_cache[ids[j]]
                         /\ lastEmit'[ids[j]] = lastEmit[ids[j]]
                   /\ cooldown_cache'[ids[i]] = now + cooldown_minutes
                   /\ \A j \in (i + 1)..Len(ids) :
                         /\ lastEmit'[ids[j]] = lastEmit[ids[j]]
                         /\ (ids[j] \in DOMAIN cooldown_cache') = (ids[j] \in DOMAIN cooldown_cache)
                         /\ ids[j] \in DOMAIN cooldown_cache
                               => cooldown_cache'[ids[j]] = cooldown_cache[ids[j]]
             /\ emitted = {} =>
                   \A j \in DOMAIN ids :
                       ids[j] \in DOMAIN cooldown_cache /\ now <= cooldown_cache[ids[j]] ]_vars

\* Two lines present an arbitrage and neither is in cooldown: the first is
\* emitted, the second is left out of the cache.
C37_Witness ==
    /\ ev.kind = "find"
    /\ ev.lines = <<"3.5", "2.5">>
    /\ \E d \in ev.dets : d.id = Identifier("Lyon vs Lille", "totals", "3.5") /\ d.emitted
    /\ Identifier("Lyon vs Lille", "totals", "2.5") \notin DOMAIN cooldown_cache

\* C38: during scans calculate_arbitrage is never given input it rejects:
\* every odds list passed to it has at least 2 entries, all above 1.0 (the
\* quotes at 1.0 or below were discarded by _extract_markets), and the call
\* raises no error.
C38_CalculatorInputAccepted ==
    (ev.kind = "find_arbitrage") =>
        \A i \in DOMAIN ev.calls :
            /\ Len(ev.calls[i]) >= 2
            /\ \A j \in DOMAIN ev.calls[i] : ev.calls[i][j] > 10
            /\ ~calculate_arbitrage(ev.calls[i], DefaultStake).raised

\* The market holds a quote at 1.0 or below, and the calculator was called.
C38_Witness ==
    /\ ev.kind = "find_arbitrage"
    /\ ev.calls # <<>>
    /\ \E i \in DOMAIN event : event[i].key = market /\ event[i].price <= 10

\* C31: every Opportunity a cycle has collected (its identifier is then in the
\* cooldown cache) is pushed and handed to the notifier before the cycle
\* ends: the opportunities still to notify go down one at a time, each time
\* with an alert, whatever happens to the save of another one.
C31_RegisteredIsAlerted ==
    [][ found' < found =>
          /\ found' = found - 1
          /\ Notice("surebet_alert", None, None) \in ev'.notices ]_vars

====
